---- MODULE Spec2Model ----
(***************************************************************************)
(* A model of strudel_of_lilypond (src/src/lib.rs): the LilyPond parser    *)
(* (LilyPondParser) and the Strudel pattern generator (StrudelGenerator).  *)
(*                                                                         *)
(* Conventions.                                                            *)
(*  - Option<T> is a sequence of length 0 (None) or 1 (Some(v)).           *)
(*  - A Vec index (idx: &mut usize) is 0-based as in the source; element   *)
(*    idx of a Vec is events[idx + 1] here.                                *)
(*  - Generated text (a Rust String) is a sequence of string chunks whose  *)
(*    concatenation is the String; Str(text) gives that String.            *)
(*  - Each component of the program has its own specification; the         *)
(*    variables of the other components stay at their idle values.         *)
(***************************************************************************)
EXTENDS Integers, Sequences, FiniteSets, TLC

VARIABLES
    \* StrudelGenerator: the staff handed to the generator and what it returned
    staff,          \* the Staff (kind, content, punchcard_color, gain, pan)
    tempo,          \* Option<&Tempo>
    gen_pc,         \* "start" | "counted" | "patterned" | "done" | "idle"
    counted,        \* result of count_*_bars(events, &mut 0): [bars, idx]
    pattern,        \* result of generate_*_pattern_with_bars(events, &mut 0)
    out,            \* the String generate_staff / generate_html returned
    \* LilyPondParser::parse
    source,         \* the text parse, mark_repeats or resolve_variables is given
    variable_map,   \* Option of the variables HashMap<String, VariableKind>
    parse_pc,       \* where parse is: "tempo" | "variables" | "mark" | "score"
                    \* | "drum_staves" | "var_refs" | "fallback" | "done"
                    \* | "panicked" | "generated" | "idle"
    marked_code,    \* Option of the text mark_repeats returned to parse
    sim_content,    \* Option of the << ... >> of the score block
    parsed_staves,  \* the Vec<Staff> staves
    parse_result,   \* Option of what parse returned: [ok, ...]
    \* mark_repeats and resolve_variables, one loop iteration at a time
    loop_result,    \* the local String result of the running loop
    mark_pc,        \* "loop" | "marked" | "panicked" | "notes" | "drums" | "idle"
    parsed_events,  \* Option of the events parsed from the marked text
    loop_changed,   \* the local flag changed of resolve_variables
    resolve_pc,     \* "replace" | "check" | "done" | "exhausted" | "idle"
    \* one token of a section: parsed to an event, the event formatted
    token_str,      \* the token tokenize gave
    token_mode,     \* "pitched" | "drums": the section the token is in
    token_event,    \* Option of the event the token gave
    token_out,     \* Option of the String the event was formatted to
    token_pc,       \* "parse" | "parsed" | "formatted" | "panicked" | "idle"
    \* the bar walks of the generator, one event at a time
    walk_kind,      \* "pitched_count" | "pitched_pattern" | "drum_count"
                    \* | "drum_pattern" | "idle"
    walk_events,    \* the events the walk is given
    walk_idx,       \* the shared index *idx
    walk_frames,    \* the locals of the running calls, innermost first
    walk_pc,        \* "walk" | "done" | "idle"
    \* expand_includes, one loop iteration or return at a time
    inc_files,      \* the files of the directory: name -> Option of content
    inc_seen,       \* the HashSet seen
    inc_stack,      \* the running calls of expand_includes_recursive,
                    \* innermost first: [result, start, end]
    inc_result,     \* Option of what expand_includes returned
    inc_pc,         \* "loop" | "done" | "idle"
    \* extract_braced_content and tokenize, one character at a time
    scan_kind,      \* "braces" | "tokenize" | "idle"
    scan_text,      \* the text code or section
    scan_start,     \* brace_start (0-based)
    scan_pos,       \* the position (1-based) of the next character
    scan_locals,    \* the locals: [depth] or [tokens, current, in_chord]
    scan_result,    \* Option of what the function returned
    scan_pc         \* "scan" | "done" | "idle"

genVars == <<staff, tempo, gen_pc, counted, pattern, out>>
parseVars == <<source, variable_map, parse_pc, marked_code, sim_content,
               parsed_staves, parse_result>>
loopVars == <<loop_result, mark_pc, parsed_events, loop_changed, resolve_pc>>

tokenVars == <<token_str, token_mode, token_event, token_out, token_pc>>
walkVars == <<walk_kind, walk_events, walk_idx, walk_frames, walk_pc>>

includeVars == <<inc_files, inc_seen, inc_stack, inc_result, inc_pc>>

scanVars == <<scan_kind, scan_text, scan_start, scan_pos, scan_locals,
              scan_result, scan_pc>>

vars == <<genVars, parseVars, loopVars, tokenVars, walkVars, includeVars,
          scanVars>>

-----------------------------------------------------------------------------
(* Option, sequence and text helpers                                       *)

None == <<>>
Some(v) == <<v>>
IsSome(o) == Len(o) = 1
IsNone(o) == o = <<>>
Unwrap(o) == o[1]

\* All sequences over S of length 0..n.
SeqsUpTo(S, n) == UNION {[1..k -> S] : k \in 0..n}

\* Vec<String>::join(sep) on texts: the parts with sep between them.
RECURSIVE Join(_, _)
Join(parts, sep) ==
    IF parts = <<>> THEN <<>>
    ELSE IF Len(parts) = 1 THEN parts[1]
    ELSE parts[1] \o <<sep>> \o Join(Tail(parts), sep)

\* The String a text stands for.
RECURSIVE Str(_)
Str(text) ==
    IF text = <<>> THEN ""
    ELSE IF Len(text) = 1 THEN text[1]
    ELSE Str(SubSeq(text, 1, Len(text) \div 2))
         \o Str(SubSeq(text, Len(text) \div 2 + 1, Len(text)))

Max(a, b) == IF a >= b THEN a ELSE b

\* The backquote character U+0060 of the generated JavaScript template
\* literals, which a TLA+ string cannot hold.
BT == "<backquote>"

-----------------------------------------------------------------------------
(* Data model (lib.rs 6-78)                                                *)

MkNote(name, octave, accidental, duration, midi, chord_notes) ==
    [name |-> name, octave |-> octave, accidental |-> accidental,
     duration |-> duration, midi |-> midi, chord_notes |-> chord_notes]

NoteEv(n) == [type |-> "Note", note |-> n]
HitEv(name, duration) ==
    [type |-> "Hit", hit |-> [name |-> name, duration |-> duration]]
RestEv(duration) == [type |-> "Rest", duration |-> duration]
BarLine == [type |-> "BarLine"]
RepeatStart(count) == [type |-> "RepeatStart", count |-> count]
RepeatEnd == [type |-> "RepeatEnd"]
CommentEv(text) == [type |-> "Comment", text |-> text]

DrumVoiceData(events, punchcard_color, gain, pan) ==
    [events |-> events, punchcard_color |-> punchcard_color,
     gain |-> gain, pan |-> pan]

new_pitched_with_options(events, punchcard_color, gain, pan) ==
    [kind |-> "Pitched", content |-> events,
     punchcard_color |-> punchcard_color, gain |-> gain, pan |-> pan]

new_pitched(events) == new_pitched_with_options(events, None, None, None)

new_drums(voices) ==
    [kind |-> "Drums", content |-> voices,
     punchcard_color |-> None, gain |-> None, pan |-> None]

-----------------------------------------------------------------------------
(* StrudelGenerator: bar counting (lib.rs 1032-1119)                       *)

BoolToBar(has_content) == IF has_content THEN 1 ELSE 0

RECURSIVE count_pitched_bars(_, _)
RECURSIVE CountPitchedLoop(_, _, _, _)
CountPitchedLoop(events, idx, bars, has_content) ==
    IF idx >= Len(events)
    THEN [bars |-> bars + BoolToBar(has_content), idx |-> idx]
    ELSE LET e == events[idx + 1] IN
         CASE e.type \in {"Note", "Rest"} ->
                CountPitchedLoop(events, idx + 1, bars, TRUE)
           [] e.type = "BarLine" ->
                CountPitchedLoop(events, idx + 1,
                                 bars + BoolToBar(has_content), FALSE)
           [] e.type = "RepeatStart" ->
                LET inner == count_pitched_bars(events, idx + 1) IN
                CountPitchedLoop(events, inner.idx,
                                 bars + BoolToBar(has_content)
                                      + inner.bars * e.count,
                                 FALSE)
           [] e.type = "RepeatEnd" ->
                [bars |-> bars + BoolToBar(has_content), idx |-> idx + 1]
           [] OTHER ->
                CountPitchedLoop(events, idx + 1, bars, has_content)

count_pitched_bars(events, idx) == CountPitchedLoop(events, idx, 0, FALSE)

RECURSIVE count_drum_bars(_, _)
RECURSIVE CountDrumLoop(_, _, _, _)
CountDrumLoop(events, idx, bars, has_content) ==
    IF idx >= Len(events)
    THEN [bars |-> bars + BoolToBar(has_content), idx |-> idx]
    ELSE LET e == events[idx + 1] IN
         CASE e.type \in {"Hit", "Rest"} ->
                CountDrumLoop(events, idx + 1, bars, TRUE)
           [] e.type = "BarLine" ->
                CountDrumLoop(events, idx + 1,
                              bars + BoolToBar(has_content), FALSE)
           [] e.type = "RepeatStart" ->
                LET inner == count_drum_bars(events, idx + 1) IN
                CountDrumLoop(events, inner.idx,
                              bars + BoolToBar(has_content)
                                   + inner.bars * e.count,
                              FALSE)
           [] e.type = "RepeatEnd" ->
                [bars |-> bars + BoolToBar(has_content), idx |-> idx + 1]
           [] OTHER ->
                CountDrumLoop(events, idx + 1, bars, has_content)

count_drum_bars(events, idx) == CountDrumLoop(events, idx, 0, FALSE)

-----------------------------------------------------------------------------
(* StrudelGenerator: formatting (lib.rs 1122-1189)                         *)

\* format!("tempo/4/{}", bars)
format_cpm_expression(bars) == "tempo/4/" \o ToString(bars)

format_note(n) ==
    LET acc == IF n.accidental = Some("is") THEN "#"
               ELSE IF n.accidental = Some("es") THEN "b"
               ELSE ""
    IN  n.name \o acc \o ToString(n.octave)

\* The default arm of format_weight: (4.0 / duration as f32).to_string(), for the
\* durations the model uses outside the table.
F32Quotient(duration) ==
    CASE duration = 0 -> "inf"
      [] duration = 3 -> "1.3333334"
      [] duration = 32 -> "0.125"
      [] duration = 64 -> "0.0625"

\* Mutant of format_weight: the quarter is written as weight 1.
format_weight_quarter_written(duration) ==
    CASE duration = 1 -> Some("4")
      [] duration = 2 -> Some("2")
      [] duration = 4 -> Some("1")
      [] duration = 8 -> Some("0.5")
      [] duration = 16 -> Some("0.25")
      [] OTHER -> Some(F32Quotient(duration))

format_weight(duration) ==
    CASE duration = 1 -> Some("4")
      [] duration = 2 -> Some("2")
      [] duration = 4 -> None
      [] duration = 8 -> Some("0.5")
      [] duration = 16 -> Some("0.25")
      [] OTHER -> Some(F32Quotient(duration))

\* format!("{}@{}", s, w) when there is a weight.
WithWeight(text, duration) ==
    LET w == format_weight(duration) IN
    IF IsSome(w) THEN text \o <<"@", Unwrap(w)>> ELSE text

\* Mutant of format_pitched_note: the weight is attached to every note
\* inside the brackets.
format_pitched_note_weighted_inside(n) ==
    IF IsSome(n.chord_notes)
    THEN <<"[">>
         \o Join(<<WithWeight(<<format_note(n)>>, n.duration)>>
                 \o [i \in 1..Len(Unwrap(n.chord_notes)) |->
                       WithWeight(<<format_note(Unwrap(n.chord_notes)[i])>>,
                                  n.duration)], ",")
         \o <<"]">>
    ELSE WithWeight(<<format_note(n)>>, n.duration)

format_pitched_note(n) ==
    LET note_str ==
          IF IsSome(n.chord_notes)
          THEN LET all_notes == <<format_note(n)>> \o
                     [i \in 1..Len(Unwrap(n.chord_notes)) |->
                        format_note(Unwrap(n.chord_notes)[i])]
               IN  <<"[">>
                   \o Join([i \in 1..Len(all_notes) |-> <<all_notes[i]>>], ",")
                   \o <<"]">>
          ELSE <<format_note(n)>>
    IN  WithWeight(note_str, n.duration)

\* 4 / duration on u32 (duration >= 1 here), then that many "~".
format_rest(duration) ==
    LET quarter_notes == 4 \div duration IN
    IF quarter_notes <= 1 THEN <<"~">>
    ELSE Join([i \in 1..quarter_notes |-> <<"~">>], " ")

format_drum_hit(h) == WithWeight(<<h.name>>, h.duration)

\* value.contains('<'): a modifier value is a text in which '<' is a chunk
\* of its own.
ContainsLt(value) == \E i \in 1..Len(value) : value[i] = "<"

\* "\"{}\"" around a value that contains '<' (a Strudel pattern).
format_pattern_value(value) ==
    IF ContainsLt(value) THEN <<"\"">> \o value \o <<"\"">> ELSE value

-----------------------------------------------------------------------------
(* StrudelGenerator: pattern generation (lib.rs 1192-1255, 1322-1385)      *)

\* bars.push(format!("[{}]", current_bar.join(" ")))
BarGroup(current_bar) == <<"[">> \o Join(current_bar, " ") \o <<"]">>

\* Mutant of FlushBars: the finished bar is inserted at the front.
FlushBarsAtFront(bars, current_bar) ==
    IF current_bar # <<>> THEN <<BarGroup(current_bar)>> \o bars ELSE bars

\* if !current_bar.is_empty() { bars.push(..); current_bar = new; bar_count += 1 }
FlushBars(bars, current_bar) ==
    IF current_bar # <<>> THEN Append(bars, BarGroup(current_bar)) ELSE bars

FlushCount(bar_count, current_bar) ==
    IF current_bar # <<>> THEN bar_count + 1 ELSE bar_count

\* Mutant of total_bars: the repeat count is added, not multiplied.
total_bars_added(inner_bars, count) == inner_bars + count

\* let total_bars = inner_bars * count;
total_bars(inner_bars, count) == inner_bars * count

\* Mutant of RepeatGroup: the multiplier is attached from one bar on.
RepeatGroupFromOneBar(inner, inner_bars, count) ==
    IF inner_bars >= 1
    THEN <<"[", "[">> \o inner
         \o <<"]", "!", ToString(count), "]", "@", ToString(inner_bars * count)>>
    ELSE <<"[">> \o inner \o <<"]", "!", ToString(count)>>

\* The group pushed for a repeated region.
RepeatGroup(inner, inner_bars, count) ==
    IF inner_bars > 1
    THEN <<"[", "[">> \o inner
         \o <<"]", "!", ToString(count), "]", "@",
              ToString(total_bars(inner_bars, count))>>
    ELSE <<"[">> \o inner \o <<"]", "!", ToString(count)>>

\* (bars.join("\n"), bar_count), with the index the walk stopped at.
PatternResult(bars, current_bar, bar_count, idx) ==
    [text |-> Join(FlushBars(bars, current_bar), "\n"),
     bars |-> FlushCount(bar_count, current_bar),
     idx |-> idx]

RECURSIVE generate_pitched_pattern_with_bars(_, _)
RECURSIVE PitchedPatternLoop(_, _, _, _, _)
PitchedPatternLoop(events, idx, bars, current_bar, bar_count) ==
    IF idx >= Len(events)
    THEN PatternResult(bars, current_bar, bar_count, idx)
    ELSE LET e == events[idx + 1] IN
         CASE e.type = "Note" ->
                PitchedPatternLoop(events, idx + 1, bars,
                    Append(current_bar, format_pitched_note(e.note)), bar_count)
           [] e.type = "Rest" ->
                PitchedPatternLoop(events, idx + 1, bars,
                    Append(current_bar, format_rest(e.duration)), bar_count)
           [] e.type = "BarLine" ->
                PitchedPatternLoop(events, idx + 1,
                    FlushBars(bars, current_bar), <<>>,
                    FlushCount(bar_count, current_bar))
           [] e.type = "RepeatStart" ->
                LET r == generate_pitched_pattern_with_bars(events, idx + 1) IN
                PitchedPatternLoop(events, r.idx,
                    Append(FlushBars(bars, current_bar),
                           RepeatGroup(r.text, r.bars, e.count)),
                    <<>>,
                    FlushCount(bar_count, current_bar)
                        + total_bars(r.bars, e.count))
           [] e.type = "RepeatEnd" ->
                PatternResult(bars, current_bar, bar_count, idx + 1)
           [] OTHER ->
                PitchedPatternLoop(events, idx + 1, bars, current_bar, bar_count)

generate_pitched_pattern_with_bars(events, idx) ==
    PitchedPatternLoop(events, idx, <<>>, <<>>, 0)

generate_pitched_pattern(events, idx) ==
    generate_pitched_pattern_with_bars(events, idx).text

RECURSIVE generate_drum_pattern_with_bars(_, _)
RECURSIVE DrumPatternLoop(_, _, _, _, _)
DrumPatternLoop(events, idx, bars, current_bar, bar_count) ==
    IF idx >= Len(events)
    THEN PatternResult(bars, current_bar, bar_count, idx)
    ELSE LET e == events[idx + 1] IN
         CASE e.type = "Hit" ->
                DrumPatternLoop(events, idx + 1, bars,
                    Append(current_bar, format_drum_hit(e.hit)), bar_count)
           [] e.type = "Rest" ->
                DrumPatternLoop(events, idx + 1, bars,
                    Append(current_bar, format_rest(e.duration)), bar_count)
           [] e.type = "BarLine" ->
                DrumPatternLoop(events, idx + 1,
                    FlushBars(bars, current_bar), <<>>,
                    FlushCount(bar_count, current_bar))
           [] e.type = "RepeatStart" ->
                LET r == generate_drum_pattern_with_bars(events, idx + 1) IN
                DrumPatternLoop(events, r.idx,
                    Append(FlushBars(bars, current_bar),
                           RepeatGroup(r.text, r.bars, e.count)),
                    <<>>,
                    FlushCount(bar_count, current_bar)
                        + total_bars(r.bars, e.count))
           [] e.type = "RepeatEnd" ->
                PatternResult(bars, current_bar, bar_count, idx + 1)
           [] OTHER ->
                DrumPatternLoop(events, idx + 1, bars, current_bar, bar_count)

generate_drum_pattern_with_bars(events, idx) ==
    DrumPatternLoop(events, idx, <<>>, <<>>, 0)

generate_drum_pattern(events, idx) ==
    generate_drum_pattern_with_bars(events, idx).text

-----------------------------------------------------------------------------
(* StrudelGenerator: staves (lib.rs 1257-1534)                             *)

\* Mutant of ModifierChain: pan comes before gain.
ModifierChainPanFirst(indent, punchcard_color, gain, pan) ==
    (IF IsSome(pan)
     THEN <<indent, ".pan(">> \o format_pattern_value(Unwrap(pan)) \o <<")">>
     ELSE <<>>)
    \o (IF IsSome(gain)
        THEN <<indent, ".gain(">> \o format_pattern_value(Unwrap(gain)) \o <<")">>
        ELSE <<>>)
    \o (IF IsSome(punchcard_color)
        THEN <<indent, ".color(\"", Unwrap(punchcard_color), "\")",
               indent, "._punchcard()">>
        ELSE <<>>)

\* The modifier chain of a pitched staff or a single drum voice; indent is
\* "\n" there and "\n  " in format_voice_modifiers.
ModifierChain(indent, punchcard_color, gain, pan) ==
    (IF IsSome(gain)
     THEN <<indent, ".gain(">> \o format_pattern_value(Unwrap(gain)) \o <<")">>
     ELSE <<>>)
    \o (IF IsSome(pan)
        THEN <<indent, ".pan(">> \o format_pattern_value(Unwrap(pan)) \o <<")">>
        ELSE <<>>)
    \o (IF IsSome(punchcard_color)
        THEN <<indent, ".color(\"", Unwrap(punchcard_color), "\")",
               indent, "._punchcard()">>
        ELSE <<>>)

format_voice_modifiers(punchcard_color, gain, pan) ==
    ModifierChain("\n  ", punchcard_color, gain, pan)

\* format!("{base}\n  .cpm({})", format_cpm_expression(bars))
CpmCall(bars) == <<"\n  .cpm(", format_cpm_expression(bars), ")">>

\* Mutant of WithCpm: the cpm call is appended without a tempo as well.
WithCpmAlways(base, tempo_opt, bars) ==
    IF bars > 0 THEN base \o CpmCall(bars) ELSE base

\* if tempo.is_some() { if bars > 0 { base + cpm } else { base } } else { base }
WithCpm(base, tempo_opt, bars) ==
    IF IsSome(tempo_opt) /\ bars > 0 THEN base \o CpmCall(bars) ELSE base

generate_pitched_staff_with_options(events, tempo_opt, punchcard_color, gain, pan) ==
    LET notes == SelectSeq(events, LAMBDA e : e.type = "Note") IN
    IF notes = <<>> THEN <<"// No notes to convert">>
    ELSE LET pat == generate_pitched_pattern(events, 0)
             modifiers == ModifierChain("\n", punchcard_color, gain, pan)
             base == <<"note(", BT, "\n">> \o pat \o <<BT, ")">> \o modifiers
                     \o <<"\n  .s(\"piano\")">>
         IN  WithCpm(base, tempo_opt, count_pitched_bars(events, 0).bars)

generate_pitched_staff(events, tempo_opt) ==
    generate_pitched_staff_with_options(events, tempo_opt, None, None, None)

generate_single_drum_voice_with_options(events, tempo_opt, punchcard_color, gain, pan) ==
    LET hits == SelectSeq(events, LAMBDA e : e.type = "Hit") IN
    IF hits = <<>> THEN <<"// No drum hits to convert">>
    ELSE LET pat == generate_drum_pattern(events, 0)
             base == <<"sound(", BT, "\n">> \o pat \o <<BT, ")">>
             modifiers == ModifierChain("\n", punchcard_color, gain, pan)
         IN  WithCpm(base \o modifiers, tempo_opt, count_drum_bars(events, 0).bars)

\* Mutant of MaxVoiceBars: the first voice's bar count is used.
FirstVoiceBars(voices) ==
    IF voices = <<>> THEN 0 ELSE count_drum_bars(voices[1].events, 0).bars

\* voices.iter().map(count_drum_bars).max().unwrap_or(0)
RECURSIVE MaxVoiceBars(_)
MaxVoiceBars(voices) ==
    IF voices = <<>> THEN 0
    ELSE Max(count_drum_bars(voices[1].events, 0).bars,
             MaxVoiceBars(Tail(voices)))

\* format!("sound(BT\n{}BT){}", pattern, modifiers) for one voice of a stack.
VoicePattern(voice) ==
    <<"sound(", BT, "\n">> \o generate_drum_pattern(voice.events, 0) \o <<BT, ")">>
    \o format_voice_modifiers(voice.punchcard_color, voice.gain, voice.pan)

generate_drum_staff(voices, tempo_opt) ==
    IF voices = <<>> THEN <<"// No drum hits to convert">>
    ELSE IF Len(voices) = 1
    THEN generate_single_drum_voice_with_options(
             voices[1].events, tempo_opt,
             voices[1].punchcard_color, voices[1].gain, voices[1].pan)
    ELSE LET voice_patterns == [i \in 1..Len(voices) |-> VoicePattern(voices[i])]
             stacked == <<"stack(\n  ">> \o Join(voice_patterns, ",\n  ")
                        \o <<",\n)">>
         IN  WithCpm(stacked, tempo_opt, MaxVoiceBars(voices))

generate_staff(s, tempo_opt) ==
    IF s.kind = "Pitched"
    THEN generate_pitched_staff_with_options(
             s.content, tempo_opt, s.punchcard_color, s.gain, s.pan)
    ELSE generate_drum_staff(s.content, tempo_opt)

\* staves.iter().map(|s| format!("$: {}", generate_staff(s))).join("\n\n")
generate_multi(staves, tempo_opt) ==
    IF staves = <<>> THEN <<"// No staves to convert">>
    ELSE Join([i \in 1..Len(staves) |->
                 <<"$: ">> \o generate_staff(staves[i], tempo_opt)], "\n\n")

-----------------------------------------------------------------------------
(* The generator's inputs                                                  *)

MaxEvents == 4        \* length of the freely enumerated event sequences
MaxBars == 3          \* bars of a bar-separated body
MaxBodyBars == 2      \* bars of the body of a nested repeat
MaxVoices == 2        \* voices of a drum staff

NoteC == NoteEv(MkNote("c", 4, None, 4, 60, None))
NoteD == NoteEv(MkNote("d", 4, Some("is"), 8, 63, None))
ChordA == NoteEv(MkNote("a", 4, None, 2, 69,
                        Some(<<MkNote("c", 4, None, 2, 60, None),
                               MkNote("e", 4, Some("es"), 2, 63, None)>>)))
Rest1 == RestEv(1)
Rest4 == RestEv(4)
HitBd == HitEv("bd", 4)
HitHh == HitEv("hh", 8)

\* u32 repeat counts used in the inputs (parse of the digits of a marker).
RepeatCounts == {2, 3}

PitchedAlphabet ==
    {NoteC, Rest1, BarLine, RepeatStart(2), RepeatStart(0), RepeatEnd,
     CommentEv("x")}
DrumAlphabet ==
    {HitBd, Rest4, BarLine, RepeatStart(2), RepeatStart(0), RepeatEnd,
     CommentEv("x")}

\* Non-empty bars: each holds at least one note, hit or rest.
PitchedBarPool ==
    {<<NoteC>>, <<Rest1>>, <<NoteC, NoteD>>, <<ChordA, Rest4, NoteC>>}
DrumBarPool == {<<HitBd>>, <<Rest4>>, <<HitBd, HitHh>>, <<HitHh, Rest4, HitBd>>}

\* bar_1 | bar_2 | ... | bar_n as one event sequence.
RECURSIVE BarsToEvents(_)
BarsToEvents(bars) ==
    IF bars = <<>> THEN <<>>
    ELSE IF Len(bars) = 1 THEN bars[1]
    ELSE bars[1] \o <<BarLine>> \o BarsToEvents(Tail(bars))

BarSeqs(pool, n) == UNION {[1..k -> pool] : k \in 1..n}

\* RepeatStart(O), RepeatStart(I), body, RepeatEnd, RepeatEnd
NestedRepeat(o, i, body) ==
    <<RepeatStart(o), RepeatStart(i)>> \o body \o <<RepeatEnd, RepeatEnd>>

\* item, RepeatStart(c), body, RepeatEnd, and what follows the region
RepeatShapes(pool, item) ==
    {pre \o <<RepeatStart(c)>> \o BarsToEvents(b) \o <<RepeatEnd>> \o post :
        c \in RepeatCounts, b \in BarSeqs(pool, MaxBodyBars),
        pre \in {<<>>, <<item>>}, post \in {<<>>, <<item>>, <<BarLine, item>>}}

NestedShapes(pool) ==
    {NestedRepeat(o, i, BarsToEvents(b)) :
        o \in RepeatCounts, i \in RepeatCounts, b \in BarSeqs(pool, MaxBodyBars)}

PitchedInputs ==
    SeqsUpTo(PitchedAlphabet, MaxEvents)
    \cup {BarsToEvents(b) : b \in BarSeqs(PitchedBarPool, MaxBars)}
    \cup NestedShapes(PitchedBarPool)
    \cup RepeatShapes(PitchedBarPool, NoteC)

\* A voice is kept only if it parsed to at least one event (lib.rs 606).
DrumInputs ==
    (SeqsUpTo(DrumAlphabet, MaxEvents) \ {<<>>})
    \cup {BarsToEvents(b) : b \in BarSeqs(DrumBarPool, MaxBars)}
    \cup NestedShapes(DrumBarPool)
    \cup RepeatShapes(DrumBarPool, HitBd)

\* Voices of a stacked drum staff: differing bar counts, with and without hits.
VoicePool ==
    {<<HitBd>>, <<HitBd, BarLine, HitHh>>, <<Rest4>>,
     <<RepeatStart(2), HitBd, BarLine, HitHh, RepeatEnd>>,
     <<RepeatStart(0), HitBd, RepeatEnd>>, <<CommentEv("x")>>}

\* Modifier values: a scalar and a Strudel pattern.
GainValues == {<<"2">>, <<"<", "0.5 1", ">">>}
PanValues == {<<"0.5">>, <<"<", "0 .5 1", ">">>}
ColorValues == {"red"}
OptionOf(S) == {None} \cup {Some(v) : v \in S}

PlainVoice(events) == DrumVoiceData(events, None, None, None)

GenStaves ==
    {new_pitched(ev) : ev \in PitchedInputs}
    \cup {new_pitched_with_options(<<NoteC>>, c, g, p) :
            c \in OptionOf(ColorValues), g \in OptionOf(GainValues),
            p \in OptionOf(PanValues)}
    \cup {new_drums(<<PlainVoice(ev)>>) : ev \in DrumInputs}
    \cup {new_drums(<<DrumVoiceData(<<HitBd>>, c, g, p)>>) :
            c \in OptionOf(ColorValues), g \in OptionOf(GainValues),
            p \in OptionOf(PanValues)}
    \cup {new_drums([i \in 1..Len(v) |-> PlainVoice(v[i])]) :
            v \in UNION {[1..k -> VoicePool] : k \in 2..MaxVoices}}
    \cup {new_pitched_with_options(<<Rest4>>, c, g, p) :
            c \in OptionOf(ColorValues), g \in OptionOf(GainValues),
            p \in OptionOf(PanValues)}
    \cup {new_drums(<<DrumVoiceData(<<HitBd>>, c, g, p),
                      DrumVoiceData(<<HitHh>>, d, h, q)>>) :
            c \in OptionOf(ColorValues), g \in OptionOf(GainValues),
            p \in OptionOf(PanValues), d \in OptionOf(ColorValues),
            h \in OptionOf(GainValues), q \in OptionOf(PanValues)}

Tempos == {None, Some([beat_unit |-> 4, bpm |-> 120])}

-----------------------------------------------------------------------------
(* Source text: a sequence of characters, each a one-character string      *)

Digits == {"0", "1", "2", "3", "4", "5", "6", "7", "8", "9"}
Lower == {"a", "b", "c", "d", "e", "f", "g", "h", "i", "j", "k", "l", "m",
          "n", "o", "p", "q", "r", "s", "t", "u", "v", "w", "x", "y", "z"}
Upper == {"A", "B", "C", "D", "E", "F", "G", "H", "I", "J", "K", "L", "M",
          "N", "O", "P", "Q", "R", "S", "T", "U", "V", "W", "X", "Y", "Z"}
\* U+0001, which mark_comments puts in place of the spaces of a comment.
SOH == "<01>"

is_whitespace(c) == c \in {" ", "\n", "\t"}
is_alphabetic(c) == c \in Lower \cup Upper
is_numeric(c) == c \in Digits
\* The regex classes \s, \w and \d.
IsSpace(c) == c \in {" ", "\n", "\t"}
IsWordChar(c) == c \in Lower \cup Upper \cup Digits \cup {"_"}
IsDigit(c) == c \in Digits

DigitValue(c) ==
    CASE c = "0" -> 0 [] c = "1" -> 1 [] c = "2" -> 2 [] c = "3" -> 3
      [] c = "4" -> 4 [] c = "5" -> 5 [] c = "6" -> 6 [] c = "7" -> 7
      [] c = "8" -> 8 [] c = "9" -> 9

\* s has the characters lit at position i (1-based).
HasAt(s, i, lit) ==
    /\ i >= 1
    /\ i + Len(lit) - 1 <= Len(s)
    /\ SubSeq(s, i, i + Len(lit) - 1) = lit

starts_with(s, lit) == HasAt(s, 1, lit)

\* The first position >= i whose character is not in the set C (Len(s) + 1
\* when the run reaches the end): where a greedy \s*, \w+ or \d+ stops.
SkipIn(s, i, C) ==
    CHOOSE j \in i..(Len(s) + 1) :
        /\ j = Len(s) + 1 \/ s[j] \notin C
        /\ \A k \in i..(j - 1) : s[k] \in C
\* The first position >= i whose character is in C, or Len(s) + 1.
SkipUntil(s, i, C) ==
    CHOOSE j \in i..(Len(s) + 1) :
        /\ j = Len(s) + 1 \/ s[j] \in C
        /\ \A k \in i..(j - 1) : s[k] \notin C

SkipSpace(s, i) == SkipIn(s, i, {" ", "\n", "\t"})
SkipWord(s, i) == SkipIn(s, i, Lower \cup Upper \cup Digits \cup {"_"})
SkipDigits(s, i) == SkipIn(s, i, Digits)

MinOf(S) == CHOOSE x \in S : \A y \in S : x <= y
MaxOf(S) == CHOOSE x \in S : \A y \in S : x >= y

\* Leading zeros removed.
StripZeros(digits) == SubSeq(digits, SkipIn(digits, 1, {"0"}), Len(digits))

RECURSIVE DecimalValue(_, _)
DecimalValue(digits, acc) ==
    IF digits = <<>> THEN acc
    ELSE DecimalValue(Tail(digits), 10 * acc + DigitValue(digits[1]))

\* str::parse::<u32>() on a non-empty run of digits: Some(value), or None
\* when the value does not fit (here: more than 9 significant digits; the
\* inputs hold no 10-digit value below 2^32).
parse_u32(digits) ==
    IF Len(StripZeros(digits)) > 9 THEN None
    ELSE Some(DecimalValue(digits, 0))

unwrap_or(o, default) == IF IsSome(o) THEN Unwrap(o) ELSE default

\* The decimal digits of a number (format!("{}", n)).
RECURSIVE ToDigits(_)
ToDigits(n) ==
    LET d == CHOOSE c \in Digits : DigitValue(c) = n % 10 IN
    IF n < 10 THEN <<d>> ELSE Append(ToDigits(n \div 10), d)

-----------------------------------------------------------------------------
(* Regular expressions over source text.  A position is 1-based (the byte  *)
(* offset plus one); a matcher takes the position it starts at and gives   *)
(* the position just after what it matched, or 0 when it does not match.   *)
(* An expression applied to a text is the function from each position of   *)
(* the text to the end of the match starting there (0: none).              *)

\* A literal.
Lit(s, i, lit) == IF i >= 1 /\ HasAt(s, i, lit) THEN i + Len(lit) ELSE 0
\* \s* and \s+
Spaces0(s, i) == IF i >= 1 THEN SkipSpace(s, i) ELSE 0
Spaces1(s, i) ==
    IF i >= 1 /\ i <= Len(s) /\ IsSpace(s[i]) THEN SkipSpace(s, i) ELSE 0
\* \w+ and \d+
Word1(s, i) ==
    IF i >= 1 /\ i <= Len(s) /\ IsWordChar(s[i]) THEN SkipWord(s, i) ELSE 0
Digits1(s, i) ==
    IF i >= 1 /\ i <= Len(s) /\ IsDigit(s[i]) THEN SkipDigits(s, i) ELSE 0
\* [a-zA-Z_][a-zA-Z0-9_]*
Ident(s, i) ==
    IF i >= 1 /\ i <= Len(s) /\ IsWordChar(s[i]) /\ ~IsDigit(s[i])
    THEN SkipWord(s, i) ELSE 0
\* (?m)^ : the start of the text or of a line.
LineStart(s, i) == i = 1 \/ (i >= 2 /\ i <= Len(s) + 1 /\ s[i - 1] = "\n")

\* The position of the end of the line holding position i (the position of
\* its newline, or Len(s) + 1); 0 for position 0.
LineEnd(s, i) == IF i = 0 THEN 0 ELSE SkipUntil(s, i, {"\n"})

\* \s+(.+)$ and \s+([^\n]+) at position i: the greedy \s+, which ran up to
\* q, gives back characters until a character other than a newline follows
\* it.  Gives the position where the capture starts, or 0.
GiveBack(s, i, q) ==
    LET starts == {p \in (i + 1)..q : p <= Len(s) /\ s[p] # "\n"} IN
    IF q = 0 \/ starts = {} THEN 0 ELSE MaxOf(starts)
SpacesThenLine(s, i) == GiveBack(s, i, Spaces1(s, i))

\* The first position >= i where lit occurs (str::find), or 0.
FindLit(s, i, lit) ==
    LET at == {j \in i..Len(s) : HasAt(s, j, lit)} IN
    IF at = {} THEN 0 ELSE MinOf(at)

\* The last position where lit occurs (str::rfind), or 0.
RFindLit(s, lit) ==
    LET at == {j \in 1..Len(s) : HasAt(s, j, lit)} IN
    IF at = {} THEN 0 ELSE MaxOf(at)

\* str::trim
trim(s) ==
    LET kept == {j \in 1..Len(s) : ~is_whitespace(s[j])} IN
    IF kept = {} THEN <<>> ELSE SubSeq(s, MinOf(kept), MaxOf(kept))

\* s[from..to) and s[from..]
Slice(s, from, to) == SubSeq(s, from, to - 1)
SliceFrom(s, from) == SubSeq(s, from, Len(s))

DIRECTIVE == <<"@", "s", "t", "r", "u", "d", "e", "l", "-", "o", "f", "-", "l", "i", "l", "y", "p", "o", "n", "d", "@">>

\* \\score\s*\{
score_re(s) ==
    [i \in 1..Len(s) |-> Lit(s, Spaces0(s, Lit(s, i, <<"\\", "s", "c", "o", "r", "e">>)), <<"{">>)]

\* (Staff|TabStaff) at position n.
StaffOrTabStaff(s, n) ==
    IF Lit(s, n, <<"S", "t", "a", "f", "f">>) # 0 THEN n + 5 ELSE Lit(s, n, <<"T", "a", "b", "S", "t", "a", "f", "f">>)

\* \\new\s+(Staff|TabStaff)\s*\{
staff_re(s) ==
    [i \in 1..Len(s) |->
       Lit(s, Spaces0(s, StaffOrTabStaff(s, Spaces1(s, Lit(s, i, <<"\\", "n", "e", "w">>)))),
           <<"{">>)]

\* \\new\s+DrumStaff\s*\{
drum_staff_re(s) ==
    [i \in 1..Len(s) |->
       Lit(s, Spaces0(s, Lit(s, Spaces1(s, Lit(s, i, <<"\\", "n", "e", "w">>)), <<"D", "r", "u", "m", "S", "t", "a", "f", "f">>)),
           <<"{">>)]

\* \\new\s+DrumVoice\s*\{
voice_re(s) ==
    [i \in 1..Len(s) |->
       Lit(s, Spaces0(s, Lit(s, Spaces1(s, Lit(s, i, <<"\\", "n", "e", "w">>)), <<"D", "r", "u", "m", "V", "o", "i", "c", "e">>)),
           <<"{">>)]

\* \\([a-zA-Z_][a-zA-Z0-9_]*)
var_ref_re(s) == [i \in 1..Len(s) |-> Ident(s, Lit(s, i, <<"\\">>))]

\* Where the digits of \\repeat\s+\w+\s+(\d+) start when it matches at i.
RepeatDigitsStart(s, i) ==
    Spaces1(s, Word1(s, Spaces1(s, Lit(s, i, <<"\\", "r", "e", "p", "e", "a", "t">>))))

\* \\repeat\s+\w+\s+(\d+)\s*\{
repeat_re(s) ==
    [i \in 1..Len(s) |->
       Lit(s, Spaces0(s, Digits1(s, RepeatDigitsStart(s, i))), <<"{">>)]

\* (?m)^([a-zA-Z_][a-zA-Z0-9_]*)\s*=\s* up to what follows the equals sign.
AssignmentHead(s, i) ==
    IF LineStart(s, i)
    THEN Spaces0(s, Lit(s, Spaces0(s, Ident(s, i)), <<"=">>))
    ELSE 0

\* (?m)^([a-zA-Z_][a-zA-Z0-9_]*)\s*=\s*\{
variable_re(s) ==
    [i \in 1..Len(s) |-> Lit(s, AssignmentHead(s, i), <<"{">>)]

\* (?m)^([a-zA-Z_][a-zA-Z0-9_]*)\s*=\s*\\drummode\s*\{
drum_re(s) ==
    [i \in 1..Len(s) |->
       Lit(s, Spaces0(s, Lit(s, AssignmentHead(s, i), <<"\\", "d", "r", "u", "m", "m", "o", "d", "e">>)), <<"{">>)]

\* \\tempo\s+(\d+)\s*=\s* up to what follows the equals sign.
TempoHead(s, i) ==
    Spaces0(s, Lit(s, Spaces0(s, Digits1(s, Spaces1(s,
        Lit(s, i, <<"\\", "t", "e", "m", "p", "o">>)))), <<"=">>))

\* \\tempo\s+(\d+)\s*=\s*(\d+)
tempo_re(s) == [i \in 1..Len(s) |-> Digits1(s, TempoHead(s, i))]

\* \\tempo\s+(\d+)\s*=\s*\\([a-zA-Z_][a-zA-Z0-9_]*)
tempo_var_re(s) ==
    [i \in 1..Len(s) |-> Ident(s, Lit(s, TempoHead(s, i), <<"\\">>))]

\* %\s*@strudel-of-lilypond@\s+ up to the word that follows.
DirectiveHead(s, i) ==
    Spaces1(s, Lit(s, Spaces0(s, Lit(s, i, <<"%">>)), DIRECTIVE))

\* Where the capture of (?m)%\s*@strudel-of-lilypond@\s+comment\s+(.+)$
\* starts when it matches at i.
CommentTextStart(s, i) ==
    SpacesThenLine(s, Lit(s, DirectiveHead(s, i), <<"c", "o", "m", "m", "e", "n", "t">>))
comment_re(s) == [i \in 1..Len(s) |-> LineEnd(s, CommentTextStart(s, i))]

\* %\s*@strudel-of-lilypond@\s+gain\s+([^\n]+)
GainTextStart(s, i) == SpacesThenLine(s, Lit(s, DirectiveHead(s, i), <<"g", "a", "i", "n">>))
gain_re(s) == [i \in 1..Len(s) |-> LineEnd(s, GainTextStart(s, i))]

\* %\s*@strudel-of-lilypond@\s+pan\s+([^\n]+)
PanTextStart(s, i) == SpacesThenLine(s, Lit(s, DirectiveHead(s, i), <<"p", "a", "n">>))
pan_re(s) == [i \in 1..Len(s) |-> LineEnd(s, PanTextStart(s, i))]

\* %\s*@strudel-of-lilypond@\s+(\w+)\s+punchcard
punchcard_re(s) ==
    [i \in 1..Len(s) |->
       Lit(s, Spaces1(s, Word1(s, DirectiveHead(s, i))), <<"p", "u", "n", "c", "h", "c", "a", "r", "d">>)]

\* Regex::find from position i in the text an expression was applied to:
\* where the leftmost match starts, or 0.
Find(ends, i) ==
    LET at == {j \in i..Len(ends) : ends[j] # 0} IN
    IF at = {} THEN 0 ELSE MinOf(at)

\* Regex::captures_iter / find_iter: the starts of the successive
\* non-overlapping matches from position i on (none of these expressions
\* matches the empty string).
RECURSIVE FindAll(_, _)
FindAllAfter(ends, m) == IF m = 0 THEN <<>> ELSE <<m>> \o FindAll(ends, ends[m])
FindAll(ends, i) == FindAllAfter(ends, Find(ends, i))


\* "([^"]+)" at position i: the position of the closing quote, or 0.
ClosingQuote(s, open) ==
    IF open = 0 \/ open > Len(s) \/ s[open] = "\"" THEN 0
    ELSE IF SkipUntil(s, open, {"\""}) > Len(s) THEN 0
    ELSE SkipUntil(s, open, {"\""})
QuoteOpen(s, i) == Lit(s, Spaces1(s, Lit(s, i, <<"\\", "i", "n", "c", "l", "u", "d", "e">>)), <<"\"">>)

\* \\include\s+"([^"]+)" at position i.
AfterQuote(close) == IF close = 0 THEN 0 ELSE close + 1
IncludeAt(s, i) == AfterQuote(ClosingQuote(s, QuoteOpen(s, i)))
include_re(s) == [i \in 1..Len(s) |-> IncludeAt(s, i)]
-----------------------------------------------------------------------------
(* LilyPondParser: repeat and comment markers (lib.rs 485-491, 714-752)    *)

REPEAT_START == <<"_", "_", "R", "E", "P", "E", "A", "T", "_", "S", "T", "A", "R", "T", "_">>
REPEAT_END == <<"_", "_", "R", "E", "P", "E", "A", "T", "_", "E", "N", "D", "_", "_">>
COMMENT_START == <<"_", "_", "C", "O", "M", "M", "E", "N", "T", "_">>
UNDERSCORES == <<"_", "_">>

\* str::parse::<usize>() on the digits of a repeat count (the inputs hold
\* counts of at most 9 digits; 20 digits and more do not fit).
parse_usize(digits) ==
    IF Len(StripZeros(digits)) > 19 THEN None
    ELSE Some(DecimalValue(digits, 0))

\* The loop over result[brace_start + 1..] of mark_repeats and of
\* extract_braced_content, which starts at position i with depth 1: the
\* position of the brace that brings depth to 0, or 0 when the text ends
\* first.  Depth is 1 before a position when as many braces opened as
\* closed since i.
MatchBrace(s, i) ==
    LET opens == {k \in i..Len(s) : s[k] = "{"}
        closes == {k \in i..Len(s) : s[k] = "}"}
        zero == {p \in closes :
                   Cardinality({k \in opens : k < p})
                     = Cardinality({k \in closes : k < p})}
    IN  IF zero = {} THEN 0 ELSE MinOf(zero)

\* extract_braced_content(code, brace_start), brace being the position of
\* the opening brace.
BracedUpTo(code, brace, end) ==
    IF end = 0 THEN None ELSE Some(Slice(code, brace + 1, end))
extract_braced_content(code, brace) ==
    BracedUpTo(code, brace, MatchBrace(code, brace + 1))

\* Mutant of Marked: the keyword of the repeat stays in front of the
\* markers.
MarkedKeepingKeyword(count, content) ==
    <<"\\", "r", "e", "p", "e", "a", "t">> \o <<" ">> \o REPEAT_START \o ToDigits(count) \o UNDERSCORES
    \o <<" ">> \o content \o <<" ">> \o REPEAT_END \o <<" ">>

\* format!(" __REPEAT_START_{}__ {} __REPEAT_END__ ", count, content)
Marked(count, content) ==
    <<" ">> \o REPEAT_START \o ToDigits(count) \o UNDERSCORES \o <<" ">>
    \o content \o <<" ">> \o REPEAT_END \o <<" ">>

\* The digits captured by the repeat expression matching at start.
DigitsFrom(s, d) == Slice(s, d, Digits1(s, d))
RepeatDigits(s, start) == DigitsFrom(s, RepeatDigitsStart(s, start))

\* The replacement of result[start..=end] by the marked content, end being
\* the position of the closing brace; panicked is TRUE when
\* result[end + 1..] starts beyond the end of result.
Splice(result, start, brace_start, end) ==
    IF end > Len(result)
    THEN [matched |-> TRUE, panicked |-> TRUE, text |-> result]
    ELSE [matched |-> TRUE, panicked |-> FALSE,
          text |-> Slice(result, 1, start)
                   \o Marked(unwrap_or(parse_usize(RepeatDigits(result, start)), 1),
                             Slice(result, brace_start + 1, end))
                   \o SliceFrom(result, end + 1)]

\* The end the brace loop leaves: the position of the closing brace, or
\* brace_start + 1 when the text ends before depth reaches 0.
BraceEnd(brace_start, close) == IF close = 0 THEN brace_start + 1 ELSE close

\* The body of the loop of mark_repeats for the match at start.
MarkMatch(result, start, brace_start) ==
    Splice(result, start, brace_start,
           BraceEnd(brace_start, MatchBrace(result, brace_start + 1)))

MarkFirst(result, ends, start) ==
    IF start = 0
    THEN [matched |-> FALSE, panicked |-> FALSE, text |-> result]
    ELSE MarkMatch(result, start, ends[start] - 1)

MarkMatches(result, ends) == MarkFirst(result, ends, Find(ends, 1))

\* One iteration of the loop of mark_repeats on result: matched is FALSE
\* when the expression matches nowhere (break).
MarkRepeatsIteration(result) == MarkMatches(result, repeat_re(result))

\* mark_repeats(code): None when it panics.
RECURSIVE mark_repeats(_)
MarkRepeatsLoop(it) ==
    IF ~it.matched THEN Some(it.text)
    ELSE IF it.panicked THEN None
    ELSE mark_repeats(it.text)
mark_repeats(code) == MarkRepeatsLoop(MarkRepeatsIteration(code))

\* caps.get(1).as_str().replace(' ', "\x01")
SpacesToSoh(text) == [i \in 1..Len(text) |-> IF text[i] = " " THEN SOH ELSE text[i]]
SohToSpaces(text) == [i \in 1..Len(text) |-> IF text[i] = SOH THEN " " ELSE text[i]]

\* mark_comments(section): replace_all from position i on, ends being the
\* comment expression applied to section.
RECURSIVE MarkCommentsFrom(_, _, _)
MarkComment(section, i, ends, m) ==
    IF m = 0 THEN SliceFrom(section, i)
    ELSE Slice(section, i, m) \o COMMENT_START
         \o SpacesToSoh(Slice(section, CommentTextStart(section, m), ends[m]))
         \o UNDERSCORES \o MarkCommentsFrom(section, ends[m], ends)
MarkCommentsFrom(section, i, ends) ==
    MarkComment(section, i, ends, Find(ends, i))

mark_comments(section) == MarkCommentsFrom(section, 1, comment_re(section))

-----------------------------------------------------------------------------
(* LilyPondParser: tokens (lib.rs 792-830)                                 *)

\* The k-th smallest element of a set of positions.
Nth(S, k) == CHOOSE x \in S : Cardinality({y \in S : y < x}) = k - 1

\* The maximal pieces of s between the positions of cuts, a position of
\* breaks starting a piece of its own; whitespace inside a piece becomes a
\* space and each piece is trimmed.
Pieces(s, cuts, breaks) ==
    LET starts == {i \in 1..Len(s) :
                     /\ i \notin cuts
                     /\ i = 1 \/ (i - 1) \in cuts \/ i \in breaks}
        stop(i) == MinOf({k \in cuts \cup breaks : k > i} \cup {Len(s) + 1})
        piece(i) == [k \in 1..(stop(i) - i) |->
                       IF is_whitespace(s[i + k - 1]) THEN " " ELSE s[i + k - 1]]
    IN  [n \in 1..Cardinality(starts) |-> trim(piece(Nth(starts, n)))]

\* tokenize(section).  in_chord is TRUE at a character when the last '<'
\* or '>' before it is a '<'; a '<' pushes the pending token and starts
\* one, whitespace outside a chord ends the pending token, and whitespace
\* inside a chord is kept as a space.
tokenize(section) ==
    LET brackets == {j \in 1..Len(section) : section[j] \in {"<", ">"}}
        in_chord(i) == LET before == {j \in brackets : j < i} IN
                       before # {} /\ section[MaxOf(before)] = "<"
        cuts == {i \in 1..Len(section) :
                   is_whitespace(section[i]) /\ ~in_chord(i)}
        breaks == {i \in brackets : section[i] = "<"}
    IN  SelectSeq(Pieces(section, cuts, breaks), LAMBDA t : t # <<>>)

\* str::split_whitespace
split_whitespace(s) ==
    Pieces(s, {i \in 1..Len(s) : is_whitespace(s[i])}, {})

-----------------------------------------------------------------------------
(* LilyPondParser: notes, rests, chords and drum hits (lib.rs 547-580,     *)
(* 640-712, 832-1019)                                                      *)

AnyAlphabetic(s, from) == \E i \in from..Len(s) : is_alphabetic(s[i])

\* The duration a run of digits stands for: 4 when it is empty or does not
\* fit a u32.
DurationOf(duration_str) ==
    IF duration_str = <<>> THEN 4 ELSE unwrap_or(parse_u32(duration_str), 4)

\* Mutant of RestUpTo: what follows the digits is not looked at.
RestUpToAnyTail(token, d) == Some(RestEv(DurationOf(Slice(token, 2, d))))

\* The rest of a trimmed token whose digits end before position d.
RestUpTo(token, d) ==
    IF AnyAlphabetic(token, d) THEN None
    ELSE Some(RestEv(DurationOf(Slice(token, 2, d))))
RestOf(token) ==
    IF ~starts_with(token, <<"r">>) \/ starts_with(token, <<"r", "e", "p", "e", "a", "t">>)
    THEN None
    ELSE RestUpTo(token, SkipDigits(token, 2))

\* parse_rest and parse_drum_rest (the same code): the Rest event, or None.
parse_rest(tok) == RestOf(trim(tok))

parse_drum_rest(tok) == parse_rest(tok)

\* The octave marks from position i on, which end before position next:
\* the octave reached and the position after them.
OctaveUpTo(token, i, octave, next) ==
    [octave |-> octave
                + Cardinality({k \in i..(next - 1) : token[k] = "'"})
                - Cardinality({k \in i..(next - 1) : token[k] = ","}),
     next |-> next]
OctaveMarks(token, i, octave) ==
    OctaveUpTo(token, i, octave, SkipIn(token, i, {"'", ","}))

SkipDots(token, i) == SkipIn(token, i, {".", "~"})

note_to_midi(name) ==
    CASE name = "c" -> 0 [] name = "d" -> 2 [] name = "e" -> 4
      [] name = "f" -> 5 [] name = "g" -> 7 [] name = "a" -> 9
      [] name = "b" -> 11

\* chars.peek() after the note letter takes an 'i' or an 'e'; the 's' that
\* follows makes the accidental, and without it the letter is dropped.
Accidental(token) ==
    IF Len(token) >= 3 /\ token[2] \in {"i", "e"} /\ token[3] = "s"
    THEN [accidental |-> Some(token[2] \o "s"), next |-> 4]
    ELSE IF Len(token) >= 2 /\ token[2] \in {"i", "e"}
    THEN [accidental |-> None, next |-> 3]
    ELSE [accidental |-> None, next |-> 2]

\* Mutant of MidiOf: the accidental is left out of the pitch.
MidiOfWithoutAccidental(name, accidental, octave) ==
    note_to_midi(name) + (octave + 1) * 12

\* let mut midi = note_to_midi[name]; "is" => midi += 1, "es" => midi -= 1;
\* midi += (octave + 1) * 12
MidiOf(name, accidental, octave) ==
    note_to_midi(name)
    + (IF accidental = Some("is") THEN 1
       ELSE IF accidental = Some("es") THEN -1 ELSE 0)
    + (octave + 1) * 12

\* The note of a trimmed token whose octave marks are oct and whose
\* duration digits end before after_digits.
NoteWithDuration(token, override_duration, acc, oct, after_digits) ==
    IF AnyAlphabetic(token, SkipDots(token, after_digits)) THEN None
    ELSE Some(MkNote(token[1], oct.octave, acc.accidental,
                     IF IsSome(override_duration) THEN Unwrap(override_duration)
                     ELSE DurationOf(Slice(token, oct.next, after_digits)),
                     MidiOf(token[1], acc.accidental, oct.octave),
                     None))
NoteWithOctave(token, override_duration, acc, oct) ==
    NoteWithDuration(token, override_duration, acc, oct,
                     SkipDigits(token, oct.next))
NoteWithAccidental(token, override_duration, acc) ==
    NoteWithOctave(token, override_duration, acc,
                   OctaveMarks(token, acc.next, 3))
SingleNoteOf(token, override_duration) ==
    IF token = <<>> \/ token[1] \notin {"a", "b", "c", "d", "e", "f", "g"}
    THEN None
    ELSE NoteWithAccidental(token, override_duration, Accidental(token))

\* parse_single_note(token, override_duration): Option<Note> (the function
\* never returns Err).
parse_single_note(tok, override_duration) ==
    SingleNoteOf(trim(tok), override_duration)

\* The digits of the duration after the closing bracket of a chord: digits
\* are kept, '.' and '~' skipped, anything else ends the loop.
ChordDigits(after_bracket) ==
    SelectSeq(SubSeq(after_bracket, 1,
                     SkipIn(after_bracket, 1, Digits \cup {".", "~"}) - 1),
              LAMBDA c : is_numeric(c))

\* The values of the options that hold one, in order.
Somes(options) == [k \in 1..Len(options) |-> Unwrap(options[k])]
Flatten(options) == Somes(SelectSeq(options, LAMBDA o : IsSome(o)))

\* Mutant of ChordNotes: each note keeps the duration of its own digits.
ChordNotesOwnDuration(note_tokens, duration) ==
    Flatten([k \in 1..Len(note_tokens) |->
               parse_single_note(note_tokens[k], None)])

\* The notes of the tokens that parse_single_note accepts, in order.
ChordNotes(note_tokens, duration) ==
    Flatten([k \in 1..Len(note_tokens) |->
               parse_single_note(note_tokens[k], Some(duration))])

\* The first note, carrying the others.
ChordOf(chord_notes) ==
    IF chord_notes = <<>> THEN None
    ELSE Some([chord_notes[1] EXCEPT !.chord_notes =
                 IF Len(chord_notes) = 1 THEN None
                 ELSE Some(Tail(chord_notes))])

ChordUpTo(token, close_bracket) ==
    IF close_bracket = 0 THEN None
    ELSE ChordOf(ChordNotes(
             split_whitespace(Slice(token, 2, close_bracket)),
             DurationOf(ChordDigits(SliceFrom(token, close_bracket + 1)))))

parse_chord(token) == ChordUpTo(token, FindLit(token, 1, <<">">>))

NoteOf(token) ==
    IF starts_with(token, <<"|">>) \/ starts_with(token, <<"\\">>) THEN None
    ELSE IF starts_with(token, <<"<">>) THEN parse_chord(token)
    ELSE parse_single_note(token, None)

parse_note(tok) == NoteOf(trim(tok))

drum_names ==
    {"bd", "sn", "hh", "hhc", "hho", "hhp", "cymc", "cymr", "cymca", "cymcb",
     "tom", "tomh", "tomm", "toml", "tomfl", "tomfh",
     "cb", "cl", "cp", "cr", "gui", "hc", "lc",
     "mc", "rc", "ride", "rb", "ss", "tamb", "tri", "whl", "whs",
     "pedalhihat", "hihat", "openhat", "closehat"}

lilypond_to_strudel_drum(name) ==
    CASE name = "sn" -> "sd"
      [] name = "hhc" -> "hh"
      [] name = "hho" -> "oh"
      [] name = "cymc" -> "cr"
      [] name = "cymr" -> "rd"
      [] name = "tomh" -> "ht"
      [] name = "tomm" -> "mt"
      [] name = "toml" -> "lt"
      [] name = "ss" -> "rim"
      [] OTHER -> name

SkipAlphabetic(s, i) == SkipIn(s, i, Lower \cup Upper)

\* The hit of a trimmed token whose name ends before after_name.
HitNamed(token, name, after_name) ==
    IF name \notin drum_names THEN None
    ELSE Some(HitEv(lilypond_to_strudel_drum(name),
                    DurationOf(Slice(token, after_name,
                                     SkipDigits(token, after_name)))))
HitUpTo(token, after_name) ==
    HitNamed(token, Str(Slice(token, 1, after_name)), after_name)
HitOf(token) ==
    IF starts_with(token, <<"|">>) \/ starts_with(token, <<"\\">>) THEN None
    ELSE HitUpTo(token, SkipAlphabetic(token, 1))

\* parse_drum_hit(token): Option<DrumHit> as the Hit event.
parse_drum_hit(tok) == HitOf(trim(tok))

-----------------------------------------------------------------------------
(* LilyPondParser: sections (lib.rs 493-545, 781-790)                      *)

\* ^__COMMENT_(.+)__$
IsCommentToken(token) ==
    /\ Len(token) >= Len(COMMENT_START) + 1 + Len(UNDERSCORES)
    /\ starts_with(token, COMMENT_START)
    /\ HasAt(token, Len(token) - 1, UNDERSCORES)
    /\ \A i \in 1..Len(token) : token[i] # "\n"
CommentText(token) ==
    Str(SohToSpaces(Slice(token, Len(COMMENT_START) + 1, Len(token) - 1)))

\* ^__REPEAT_START_(\d+)__$
IsRepeatStartToken(token) ==
    Lit(token, Digits1(token, Lit(token, 1, REPEAT_START)), UNDERSCORES)
      = Len(token) + 1
RepeatStartCount(token) ==
    unwrap_or(parse_u32(DigitsFrom(token, Len(REPEAT_START) + 1)), 1)

\* The first of two options that holds a value.
OrElse(first, second) == IF IsSome(first) THEN first ELSE second
NoteEvent(note) == IF IsSome(note) THEN Some(NoteEv(Unwrap(note))) ELSE None

\* The event a token of a pitched section gives, as an option.
PitchedEventOf(token) ==
    IF IsCommentToken(token) THEN Some(CommentEv(CommentText(token)))
    ELSE IF starts_with(token, <<"|">>) THEN Some(BarLine)
    ELSE IF IsRepeatStartToken(token) THEN Some(RepeatStart(RepeatStartCount(token)))
    ELSE IF token = REPEAT_END THEN Some(RepeatEnd)
    ELSE OrElse(parse_rest(token), NoteEvent(parse_note(token)))

DrumEventOf(token) ==
    IF IsCommentToken(token) THEN Some(CommentEv(CommentText(token)))
    ELSE IF starts_with(token, <<"|">>) THEN Some(BarLine)
    ELSE IF IsRepeatStartToken(token) THEN Some(RepeatStart(RepeatStartCount(token)))
    ELSE IF token = REPEAT_END THEN Some(RepeatEnd)
    ELSE OrElse(parse_drum_rest(token), parse_drum_hit(token))

\* The events of the tokens that give one, in order.
PitchedEventsOf(tokens) ==
    Flatten([k \in 1..Len(tokens) |-> PitchedEventOf(tokens[k])])
DrumEventsOf(tokens) ==
    Flatten([k \in 1..Len(tokens) |-> DrumEventOf(tokens[k])])

\* parse_notes_from_section and parse_drums_from_section: both always Ok.
parse_notes_from_section(section) ==
    PitchedEventsOf(tokenize(mark_comments(section)))
parse_drums_from_section(section) ==
    DrumEventsOf(tokenize(mark_comments(section)))

\* extract_notes_section(code): [ok, text] or [ok = FALSE, err].
extract_notes_section(code) ==
    LET start == FindLit(code, 1, <<"{">>)
        end == RFindLit(code, <<"}">>)
    IN  IF start = 0 THEN [ok |-> FALSE, err |-> "No '{' found"]
        ELSE IF end = 0 THEN [ok |-> FALSE, err |-> "No '}' found"]
        ELSE IF start >= end THEN [ok |-> FALSE, err |-> "Invalid syntax"]
        ELSE [ok |-> TRUE, text |-> Slice(code, start + 1, end)]

-----------------------------------------------------------------------------
(* LilyPondParser: tempo and variables (lib.rs 225-307, 443-483, 754-779)  *)

MkTempo(beat_unit, bpm) == [beat_unit |-> beat_unit, bpm |-> bpm]

\* The identifier and the word that start at a position.
NameFrom(s, b) == Slice(s, b, Ident(s, b))
WordFrom(s, w) == Slice(s, w, Word1(s, w))

\* The captures of the tempo expressions matching at start.
TempoUnitDigits(code, start) ==
    DigitsFrom(code, Spaces1(code, Lit(code, start, <<"\\", "t", "e", "m", "p", "o">>)))
TempoBpmDigits(code, start) == DigitsFrom(code, TempoHead(code, start))
TempoVarName(code, start) ==
    NameFrom(code, Lit(code, TempoHead(code, start), <<"\\">>))

\* (?m)^{var_name}\s*=\s*(\d+): where its digits start when it matches at
\* i, and the expression applied to code.
ValDigitsStart(code, i, var_name) ==
    Spaces0(code, Lit(code, Spaces0(code, Lit(code, i, var_name)), <<"=">>))
val_re(code, var_name) ==
    [i \in 1..Len(code) |->
       IF LineStart(code, i)
       THEN Digits1(code, ValDigitsStart(code, i, var_name))
       ELSE 0]

\* Tempo { beat_unit, bpm }: None when one of the two does not fit a u32
\* (.parse().ok()?).
TempoFrom(beat_unit, bpm) ==
    IF IsSome(beat_unit) /\ IsSome(bpm)
    THEN Some(MkTempo(Unwrap(beat_unit), Unwrap(bpm)))
    ELSE None
\* Mutant of TempoOf: the two captures are taken in the other order.
TempoOfSwapped(unit_digits, bpm_digits) ==
    TempoFrom(parse_u32(bpm_digits), parse_u32(unit_digits))

TempoOf(unit_digits, bpm_digits) ==
    TempoFrom(parse_u32(unit_digits), parse_u32(bpm_digits))

\* The variable form matching at var, the assignment of var_name matching
\* at val (0: nowhere).
TempoValue(code, var, var_name, val) ==
    IF val = 0 THEN None
    ELSE TempoOf(TempoUnitDigits(code, var),
                 DigitsFrom(code, ValDigitsStart(code, val, var_name)))
TempoNamed(code, var, var_name) ==
    TempoValue(code, var, var_name, Find(val_re(code, var_name), 1))
TempoVariable(code, var) ==
    IF var = 0 THEN None
    ELSE IF IsNone(parse_u32(TempoUnitDigits(code, var))) THEN None
    ELSE TempoNamed(code, var, TempoVarName(code, var))
TempoLiteral(code, lit) ==
    IF lit # 0
    THEN TempoOf(TempoUnitDigits(code, lit), TempoBpmDigits(code, lit))
    ELSE TempoVariable(code, Find(tempo_var_re(code), 1))

parse_tempo(code) == TempoLiteral(code, Find(tempo_re(code), 1))

\* The variables HashMap: a function from names (Strings) to
\* [kind, content].
Pitched(content) == [kind |-> "Pitched", content |-> content]
Drums(content) == [kind |-> "Drums", content |-> content]
NoVariables == [name \in {} |-> Pitched(<<>>)]
Insert(map, name, value) == (name :> value) @@ map

\* The body of a loop of parse_variables: a match whose brace is never
\* closed inserts nothing.
InsertContent(map, name, kind, content) ==
    IF IsNone(content) THEN map
    ELSE Insert(map, name, [kind |-> kind, content |-> Unwrap(content)])
InsertMatch(map, code, kind, m, brace_start) ==
    InsertContent(map, Str(NameFrom(code, m)), kind,
                  extract_braced_content(code, brace_start))

\* One loop of parse_variables over the matches of an expression.
RECURSIVE InsertMatches(_, _, _, _, _)
InsertMatches(map, code, kind, ends, matches) ==
    IF matches = <<>> THEN map
    ELSE InsertMatches(
             InsertMatch(map, code, kind, matches[1], ends[matches[1]] - 1),
             code, kind, ends, Tail(matches))
InsertAll(map, code, kind, ends) ==
    InsertMatches(map, code, kind, ends, FindAll(ends, 1))

parse_variables(code) ==
    InsertAll(InsertAll(NoVariables, code, "Pitched", variable_re(code)),
              code, "Drums", drum_re(code))

\* The map of parse(), whose contents went through mark_repeats: None when
\* mark_repeats panics on one of them.
MarkedVariables(variables, marked) ==
    IF \E n \in DOMAIN marked : IsNone(marked[n]) THEN None
    ELSE Some([n \in DOMAIN variables |->
                 [variables[n] EXCEPT !.content = Unwrap(marked[n])]])
MarkVariables(variables) ==
    MarkedVariables(variables,
        [n \in DOMAIN variables |-> mark_repeats(variables[n].content)])

PunchcardAt(content, m) ==
    IF m = 0 THEN None
    ELSE Some(Str(WordFrom(content, DirectiveHead(content, m))))
parse_punchcard_color(content) ==
    PunchcardAt(content, Find(punchcard_re(content), 1))

GainAt(content, ends, m) ==
    IF m = 0 THEN None
    ELSE Some(trim(Slice(content, GainTextStart(content, m), ends[m])))
GainIn(content, ends) == GainAt(content, ends, Find(ends, 1))
parse_gain(content) == GainIn(content, gain_re(content))

PanAt(content, ends, m) ==
    IF m = 0 THEN None
    ELSE Some(trim(Slice(content, PanTextStart(content, m), ends[m])))
PanIn(content, ends) == PanAt(content, ends, Find(ends, 1))
parse_pan(content) == PanIn(content, pan_re(content))

\* The name a variable reference matching at m captures.
RefName(s, m) == Str(NameFrom(s, m + 1))

\* variables.get(name) is Some(VariableKind::Drums(_))
IsDrums(variables, name) ==
    name \in DOMAIN variables /\ variables[name].kind = "Drums"

AnyDrums(content, refs, variables) ==
    \E k \in 1..Len(refs) : IsDrums(variables, RefName(content, refs[k]))
is_drum_content(content, variables) ==
    AnyDrums(content, FindAll(var_ref_re(content), 1), variables)

\* What the closure of resolve_variables gives for the reference matching
\* at m and ending before e.
Replacement(result, m, e, variables, name) ==
    IF name \in DOMAIN variables THEN variables[name].content
    ELSE Slice(result, m, e)
Replaced(head, known, replacement, rest) ==
    [changed |-> known \/ rest.changed,
     text |-> head \o replacement \o rest.text]

\* One replace_all of resolve_variables from position i on, ends being the
\* reference expression applied to result: the new text and whether a
\* reference to a known variable was replaced.
RECURSIVE ReplaceAllFrom(_, _, _, _)
ReplaceNamed(result, i, ends, variables, m, name) ==
    Replaced(Slice(result, i, m), name \in DOMAIN variables,
             Replacement(result, m, ends[m], variables, name),
             ReplaceAllFrom(result, ends[m], ends, variables))
ReplaceMatch(result, i, ends, variables, m) ==
    IF m = 0 THEN [changed |-> FALSE, text |-> SliceFrom(result, i)]
    ELSE ReplaceNamed(result, i, ends, variables, m, RefName(result, m))
ReplaceAllFrom(result, i, ends, variables) ==
    ReplaceMatch(result, i, ends, variables, Find(ends, i))
ReplaceAllIn(result, variables) ==
    ReplaceAllFrom(result, 1, var_ref_re(result), variables)

\* resolve_variables(content, variables): the loop runs until a pass
\* replaces nothing.
RECURSIVE resolve_variables(_, _)
ResolveLoop(pass, variables) ==
    IF pass.changed THEN resolve_variables(pass.text, variables)
    ELSE pass.text
resolve_variables(content, variables) ==
    ResolveLoop(ReplaceAllIn(content, variables), variables)

-----------------------------------------------------------------------------
(* LilyPondParser: staves (lib.rs 328-441, 582-638)                        *)

\* if !events.is_empty() { push }: what is pushed, as a sequence of 0 or 1
\* elements.
VoiceIfAny(events, punchcard_color, gain, pan) ==
    IF events = <<>> THEN <<>>
    ELSE <<DrumVoiceData(events, punchcard_color, gain, pan)>>
DrumStaffIfAny(voices) ==
    IF voices = <<>> THEN <<>> ELSE <<new_drums(voices)>>
StaffIfAny(notes, punchcard_color, gain, pan) ==
    IF notes = <<>> THEN <<>>
    ELSE <<new_pitched_with_options(notes, punchcard_color, gain, pan)>>
PlainStaffIfAny(notes) ==
    IF notes = <<>> THEN <<>> ELSE <<new_pitched(notes)>>

\* if voices.is_empty() { ... }
OrIfEmpty(first, second) == IF first = <<>> THEN second ELSE first

\* The body of the \new DrumVoice loop of parse_drum_voices.
DrumVoiceOf(content, variables) ==
    VoiceIfAny(parse_drums_from_section(resolve_variables(content, variables)),
               parse_punchcard_color(content), parse_gain(content),
               parse_pan(content))
DrumVoiceBlock(voice_content, variables) ==
    IF IsNone(voice_content) THEN <<>>
    ELSE DrumVoiceOf(Unwrap(voice_content), variables)

RECURSIVE DrumVoiceBlocks(_, _, _, _)
DrumVoiceBlocks(simultaneous, ends, matches, variables) ==
    IF matches = <<>> THEN <<>>
    ELSE DrumVoiceBlock(
             extract_braced_content(simultaneous, ends[matches[1]] - 1),
             variables)
         \o DrumVoiceBlocks(simultaneous, ends, Tail(matches), variables)
DrumVoicesIn(simultaneous, ends, variables) ==
    DrumVoiceBlocks(simultaneous, ends, FindAll(ends, 1), variables)

\* The body of the loop of parse_drum_voices over the variable references.
DrumVoiceRef(var_name, variables) ==
    IF IsDrums(variables, var_name)
    THEN VoiceIfAny(parse_drums_from_section(variables[var_name].content),
                    None, None, None)
    ELSE <<>>

RECURSIVE DrumVoiceRefs(_, _, _)
DrumVoiceRefs(simultaneous, matches, variables) ==
    IF matches = <<>> THEN <<>>
    ELSE DrumVoiceRef(RefName(simultaneous, matches[1]), variables)
         \o DrumVoiceRefs(simultaneous, Tail(matches), variables)

\* The voices of the << ... >> block of a drum staff.
SimultaneousVoices(simultaneous, variables) ==
    OrIfEmpty(DrumVoicesIn(simultaneous, voice_re(simultaneous), variables),
              DrumVoiceRefs(simultaneous,
                            FindAll(var_ref_re(simultaneous), 1), variables))
VoicesBetween(staff_content, sim_start, sim_end, variables) ==
    IF sim_start # 0 /\ sim_end # 0 /\ sim_start < sim_end
    THEN SimultaneousVoices(Slice(staff_content, sim_start + 2, sim_end),
                            variables)
    ELSE <<>>

parse_drum_voices(staff_content, variables) ==
    OrIfEmpty(VoicesBetween(staff_content, FindLit(staff_content, 1, <<"<", "<">>),
                            RFindLit(staff_content, <<">", ">">>), variables),
              VoiceIfAny(parse_drums_from_section(
                             resolve_variables(staff_content, variables)),
                         None, None, None))

\* The simultaneous content of the score block of code: None when there is
\* no \score { ... } with a << ... >> in it.
SimultaneousBetween(score_content, sim_start, sim_end) ==
    IF sim_start = 0 \/ sim_end = 0 THEN None
    ELSE IF sim_start >= sim_end THEN None
    ELSE Some(Slice(score_content, sim_start + 2, sim_end))
SimultaneousOf(score_content) ==
    IF IsNone(score_content) THEN None
    ELSE SimultaneousBetween(Unwrap(score_content),
                             FindLit(Unwrap(score_content), 1, <<"<", "<">>),
                             RFindLit(Unwrap(score_content), <<">", ">">>))
ScoreAt(code, ends, score_match) ==
    IF score_match = 0 THEN None
    ELSE SimultaneousOf(extract_braced_content(code, ends[score_match] - 1))
ScoreIn(code, ends) == ScoreAt(code, ends, Find(ends, 1))
SimultaneousContent(code) == ScoreIn(code, score_re(code))

\* The body of the \new Staff / \new TabStaff loop: the staff it pushes, as
\* a sequence of 0 or 1.
StaffOfResolved(content, resolved, variables) ==
    IF is_drum_content(content, variables)
    THEN DrumStaffIfAny(VoiceIfAny(parse_drums_from_section(resolved),
                                   parse_punchcard_color(content),
                                   parse_gain(content), parse_pan(content)))
    ELSE StaffIfAny(parse_notes_from_section(resolved),
                    parse_punchcard_color(content),
                    parse_gain(content), parse_pan(content))
StaffOf(content, variables) ==
    StaffOfResolved(content, resolve_variables(content, variables), variables)
PitchedStaffBlock(staff_content, variables) ==
    IF IsNone(staff_content) THEN <<>>
    ELSE StaffOf(Unwrap(staff_content), variables)

RECURSIVE PitchedStaffBlocks(_, _, _, _)
PitchedStaffBlocks(simultaneous_content, ends, matches, variables) ==
    IF matches = <<>> THEN <<>>
    ELSE PitchedStaffBlock(
             extract_braced_content(simultaneous_content, ends[matches[1]] - 1),
             variables)
         \o PitchedStaffBlocks(simultaneous_content, ends, Tail(matches),
                               variables)
PitchedStavesIn(simultaneous_content, ends, variables) ==
    PitchedStaffBlocks(simultaneous_content, ends, FindAll(ends, 1), variables)

\* The body of the \new DrumStaff loop.
DrumStaffBlock(staff_content, variables) ==
    IF IsNone(staff_content) THEN <<>>
    ELSE DrumStaffIfAny(parse_drum_voices(Unwrap(staff_content), variables))

RECURSIVE DrumStaffBlocks(_, _, _, _)
DrumStaffBlocks(simultaneous_content, ends, matches, variables) ==
    IF matches = <<>> THEN <<>>
    ELSE DrumStaffBlock(
             extract_braced_content(simultaneous_content, ends[matches[1]] - 1),
             variables)
         \o DrumStaffBlocks(simultaneous_content, ends, Tail(matches), variables)
DrumStavesIn(simultaneous_content, ends, variables) ==
    DrumStaffBlocks(simultaneous_content, ends, FindAll(ends, 1), variables)

\* The body of the loop over the bare variable references.
VariableRefStaff(var_name, variables) ==
    IF var_name \notin DOMAIN variables THEN <<>>
    ELSE IF variables[var_name].kind = "Pitched"
    THEN PlainStaffIfAny(parse_notes_from_section(variables[var_name].content))
    ELSE DrumStaffIfAny(VoiceIfAny(
             parse_drums_from_section(variables[var_name].content),
             None, None, None))

RECURSIVE VariableRefStaves(_, _, _)
VariableRefStaves(simultaneous_content, matches, variables) ==
    IF matches = <<>> THEN <<>>
    ELSE VariableRefStaff(RefName(simultaneous_content, matches[1]), variables)
         \o VariableRefStaves(simultaneous_content, Tail(matches), variables)

\* generate_html(staves, tempo, title)
generate_html(staves, tempo_opt, title) ==
    LET tempo_const == IF IsSome(tempo_opt)
                       THEN <<"const tempo = ", ToString(Unwrap(tempo_opt).bpm), ";">>
                       ELSE <<"const tempo = 120;">>
    IN  <<"<!DOCTYPE html>\n<html>\n<head>\n  <meta charset=\"UTF-8\">\n  <title>",
          title,
          "</title>\n  <script src=\"https://unpkg.com/@strudel/embed@latest\"></script>\n  <style>\n    html, body { margin: 0; padding: 0; width: 100%; height: 100%; }\n    strudel-repl { width: 100%; height: 100%; display: block; }\n    strudel-repl iframe { width: 100%; height: 100%; border: none; }\n  </style>\n</head>\n<body>\n  <strudel-repl>\n<!--\n">>
        \o tempo_const \o <<"\n\n">> \o generate_multi(staves, tempo_opt)
        \o <<"\n-->\n  </strudel-repl>\n</body>\n</html>">>

-----------------------------------------------------------------------------
(* The generator as a state machine: the calls generate_staff makes        *)

\* The event sequences of a staff: its events, or one sequence per voice.
EventSeqs(s) ==
    IF s.kind = "Pitched" THEN <<s.content>>
    ELSE [i \in 1..Len(s.content) |-> s.content[i].events]

GenIdle ==
    /\ staff = None /\ tempo = None /\ gen_pc = "idle"
    /\ counted = None /\ pattern = None /\ out = None

ParseIdle ==
    /\ variable_map = None /\ parse_pc = "idle" /\ marked_code = None
    /\ sim_content = None /\ parsed_staves = <<>> /\ parse_result = None

LoopIdle ==
    /\ loop_result = <<>> /\ mark_pc = "idle" /\ parsed_events = None
    /\ loop_changed = FALSE /\ resolve_pc = "idle"

TokenIdle ==
    /\ token_str = <<>> /\ token_mode = "idle" /\ token_event = None
    /\ token_out = None /\ token_pc = "idle"

WalkIdle ==
    /\ walk_kind = "idle" /\ walk_events = <<>> /\ walk_idx = 0
    /\ walk_frames = <<>> /\ walk_pc = "idle"

IncludeIdle ==
    /\ inc_files = <<>> /\ inc_seen = {} /\ inc_stack = <<>>
    /\ inc_result = None /\ inc_pc = "idle"

ScanIdle ==
    /\ scan_kind = "idle" /\ scan_text = <<>> /\ scan_start = 0 /\ scan_pos = 0
    /\ scan_locals = <<>> /\ scan_result = None /\ scan_pc = "idle"

GenInit ==
    /\ staff \in GenStaves
    /\ tempo \in Tempos
    /\ gen_pc = "start"
    /\ counted = None
    /\ pattern = None
    /\ out = None
    /\ source = <<>> /\ ParseIdle /\ LoopIdle /\ TokenIdle /\ WalkIdle /\ IncludeIdle /\ ScanIdle

\* count_pitched_bars / count_drum_bars with a fresh index, per sequence.
CountBars ==
    /\ gen_pc = "start"
    /\ counted' = [i \in 1..Len(EventSeqs(staff)) |->
                     IF staff.kind = "Pitched"
                     THEN count_pitched_bars(EventSeqs(staff)[i], 0)
                     ELSE count_drum_bars(EventSeqs(staff)[i], 0)]
    /\ gen_pc' = "counted"
    /\ UNCHANGED <<scanVars, includeVars, tokenVars, walkVars, staff, tempo, pattern, out, parseVars, loopVars>>

\* generate_*_pattern_with_bars with a fresh index, per sequence.
GeneratePattern ==
    /\ gen_pc = "counted"
    /\ pattern' = [i \in 1..Len(EventSeqs(staff)) |->
                     IF staff.kind = "Pitched"
                     THEN generate_pitched_pattern_with_bars(EventSeqs(staff)[i], 0)
                     ELSE generate_drum_pattern_with_bars(EventSeqs(staff)[i], 0)]
    /\ gen_pc' = "patterned"
    /\ UNCHANGED <<scanVars, includeVars, tokenVars, walkVars, staff, tempo, counted, out, parseVars, loopVars>>

GenerateStaff ==
    /\ gen_pc = "patterned"
    /\ out' = Some(generate_staff(staff, tempo))
    /\ gen_pc' = "done"
    /\ UNCHANGED <<scanVars, includeVars, tokenVars, walkVars, staff, tempo, counted, pattern, parseVars, loopVars>>

GenNext == CountBars \/ GeneratePattern \/ GenerateStaff

SpecGen == GenInit /\ [][GenNext]_vars

-----------------------------------------------------------------------------
(* The parser's inputs                                                     *)

MaxFragments == 3     \* fragments of a freely composed text
MaxNest == 5          \* fragments of a text of nested repeats
MaxBody == 2          \* fragments of the body of one repeat
MaxText == 16         \* characters resolve_variables can hold before the
                      \* allocation of a longer String fails
MaxLines == 3         \* lines of a text of tempo directives
MaxStaves == 3        \* blocks of a score

\* The concatenation of a sequence of texts.
RECURSIVE Concat(_)
Concat(texts) ==
    IF texts = <<>> THEN <<>> ELSE texts[1] \o Concat(Tail(texts))

REP2 == <<"\\", "r", "e", "p", "e", "a", "t", " ", "v", "o", "l", "t", "a", " ", "2", " ", "{">>
REP3 == <<"\\", "r", "e", "p", "e", "a", "t", " ", "p", "e", "r", "c", "e", "n", "t", " ", "3", "{">>
NOTE_C == <<" ", "c", " ">>
NOTE_D == <<" ", "d", "8", " ">>
OPEN == <<" ", "{", " ">>
CLOSE == <<" ", "}", " ">>
CHORD_OPEN == <<" ", "<", "c">>
CHORD_CLOSE == <<" ", "e", ">", "2", " ">>
CRESCENDO == <<" ", "c", "4", "\\", "<", " ">>
COMMENT_X == <<"%", " ", "@", "s", "t", "r", "u", "d", "e", "l", "-", "o", "f", "-", "l", "i", "l", "y", "p", "o", "n", "d", "@", " ", "c", "o", "m", "m", "e", "n", "t", " ", "x">>
NEWLINE == <<"\n">>
KEYWORD == <<"\\", "r", "e", "p", "e", "a", "t", " ">>
THREE == <<" ", "3", " ">>
HIT_BD == <<" ", "b", "d", " ">>

MarkFragments ==
    {REP2, NOTE_C, HIT_BD, OPEN, CLOSE, CHORD_OPEN, CHORD_CLOSE, COMMENT_X,
     NEWLINE}
NestFragments == {REP2, REP3, NOTE_C, CLOSE}
BodyFragments ==
    {NOTE_C, HIT_BD, OPEN \o NOTE_D \o CLOSE, CHORD_OPEN \o CHORD_CLOSE,
     CRESCENDO, COMMENT_X, COMMENT_X \o NEWLINE}

\* Texts given to mark_repeats: freely composed ones, nested repeats, one
\* repeat around a body, and a repeat keyword in front of a repeat.
MarkInputs ==
    {Concat(f) : f \in SeqsUpTo(MarkFragments, MaxFragments)}
    \cup {Concat(f) : f \in SeqsUpTo(NestFragments, MaxNest)}
    \cup {REP2 \o Concat(f) \o CLOSE : f \in SeqsUpTo(BodyFragments, MaxBody)}
    \cup {KEYWORD \o REP2 \o THREE \o OPEN \o NOTE_C \o CLOSE \o CLOSE,
          KEYWORD \o REP2 \o NOTE_C \o CLOSE}

\* The content of a variable as extract_braced_content gives it: every
\* closing brace closes an earlier one and none stays open.
BracesBalanced(s) ==
    LET opens(p) == Cardinality({k \in 1..p : s[k] = "{"})
        closes(p) == Cardinality({k \in 1..p : s[k] = "}"})
    IN  /\ \A p \in 1..Len(s) : closes(p) <= opens(p)
        /\ closes(Len(s)) = opens(Len(s))

\* Variable tables and contents given to resolve_variables.
ResolveBodies ==
    {<<" ", "c", " ">>, <<" ", "\\", "b", " ">>, <<" ", "\\", "a", " ">>, <<"\\", "a">>, <<" ", "c", " ", "\\", "a", " ">>, <<" ", "\\", "x", " ">>, <<"c">>}
ResolveContents == {<<"\\", "a">>, <<"\\", "a", " ", "\\", "b">>, <<" ", "c", " ">>, <<"\\", "x", " ", "\\", "a">>, <<"\\", "x", "\\", "a">>}
ResolveTables ==
    {Insert(Insert(NoVariables, "a", Pitched(a)), "b", Drums(b)) :
        a \in ResolveBodies, b \in ResolveBodies}
    \cup {Insert(NoVariables, "a", Pitched(a)) : a \in ResolveBodies}
    \cup {NoVariables,
          Insert(Insert(NoVariables, "a", Pitched(<<"c">>)), "xc", Pitched(<<" ", "d", " ">>))}

\* Lines of a text of tempo directives, with what each line says: a
\* literal directive, a directive referring to a variable, the assignment
\* of a number to a variable at the start of a line, the same after
\* spaces, or something else.
TempoLine(text, kind, unit, bpm, name) ==
    [text |-> text, kind |-> kind, unit |-> unit, bpm |-> bpm, name |-> name]
TempoLines ==
    {TempoLine(<<"\\", "t", "e", "m", "p", "o", " ", "4", " ", "=", " ", "1", "2", "0">>, "literal", 4, 120, ""),
     TempoLine(<<"\\", "t", "e", "m", "p", "o", " ", " ", "8", "=", "6", "0">>, "literal", 8, 60, ""),
     TempoLine(<<"\\", "t", "e", "m", "p", "o", " ", "4", " ", "=", " ", "9", "9", "9", "9", "9", "9", "9", "9", "9", "9", "9">>, "literal", 4, -1, ""),
     TempoLine(<<"\\", "t", "e", "m", "p", "o", " ", "4", " ", "=", " ", "\\", "b", "p", "m">>, "variable", 4, 0, "bpm"),
     TempoLine(<<"\\", "t", "e", "m", "p", "o", " ", "2", " ", "=", " ", "\\", "s", "p", "e", "e", "d">>, "variable", 2, 0, "speed"),
     TempoLine(<<"b", "p", "m", " ", "=", " ", "9", "0">>, "assignment", 0, 90, "bpm"),
     TempoLine(<<" ", " ", "b", "p", "m", " ", "=", " ", "7", "0">>, "indented", 0, 70, "bpm"),
     TempoLine(<<"{", " ", "c", "4", " ", "d", " ", "}">>, "other", 0, 0, ""),
     TempoLine(<<"\\", "r", "e", "p", "e", "a", "t", " ", "v", "o", "l", "t", "a", " ", "2", " ", "{">>, "other", 0, 0, "")}

\* Lines joined by newlines.
RECURSIVE JoinLines(_)
JoinLines(lines) ==
    IF lines = <<>> THEN <<>>
    ELSE IF Len(lines) = 1 THEN lines[1].text
    ELSE lines[1].text \o NEWLINE \o JoinLines(Tail(lines))

TempoInputs == {JoinLines(l) : l \in SeqsUpTo(TempoLines, MaxLines)}

\* The blocks of a score, after a header that gives the tempo and defines
\* the variables mel, beat and song, the last referring to beat.
ScoreHeader ==
    <<"\\", "t", "e", "m", "p", "o", " ", "4", " ", "=", " ", "1", "2", "0", "\n", "m", "e", "l", " ", "=", " ", "{", " ", "e", "2", " ", "}", "\n", "b", "e", "a", "t", " ", "=", " ", "\\", "d", "r", "u", "m", "m", "o", "d", "e", " ", "{", " ", "h", "h", "8", " ", "}", "\n", "s", "o", "n", "g", " ", "=", " ", "{", " ", "\\", "b", "e", "a", "t", " ", "c", " ", "}", "\n">>
ScoreBlocks ==
    {<<" ", "\\", "n", "e", "w", " ", "S", "t", "a", "f", "f", " ", "{", " ", "c", " ", "}", " ">>,
     <<" ", "\\", "n", "e", "w", " ", "T", "a", "b", "S", "t", "a", "f", "f", " ", "{", " ", "d", " ", "|", " ", "d", " ", "}", " ">>,
     <<" ", "\\", "n", "e", "w", " ", "D", "r", "u", "m", "S", "t", "a", "f", "f", " ", "{", " ", "b", "d", " ", "}", " ">>,
     <<" ", "\\", "n", "e", "w", " ", "S", "t", "a", "f", "f", " ", "{", " ", "}", " ">>,
     <<" ", "\\", "n", "e", "w", " ", "D", "r", "u", "m", "S", "t", "a", "f", "f", " ", "{", " ", "\\", "t", "i", "m", "e", " ", "4", "/", "4", " ", "}", " ">>,
     <<" ", "\\", "n", "e", "w", " ", "S", "t", "a", "f", "f", " ", "{", " ", "\\", "b", "e", "a", "t", " ", "%", " ", "@", "s", "t", "r", "u", "d", "e", "l", "-", "o", "f", "-", "l", "i", "l", "y", "p", "o", "n", "d", "@", " ", "g", "a", "i", "n", " ", "2", "\n", "}", " ">>,
     <<" ", "\\", "n", "e", "w", " ", "D", "r", "u", "m", "S", "t", "a", "f", "f", " ", "{", " ", "<", "<", " ", "\\", "n", "e", "w", " ", "D", "r", "u", "m", "V", "o", "i", "c", "e", " ", "{", " ", "b", "d", " ", "}", " ", "\\", "n", "e", "w", " ", "D", "r", "u", "m", "V", "o", "i", "c", "e", " ", "{", " ", "\\", "b", "e", "a", "t", " ", "}", " ", ">", ">", " ", "}", " ">>,
     <<" ", "\\", "n", "e", "w", " ", "S", "t", "a", "f", "f", " ", "{", " ", "\\", "s", "o", "n", "g", " ", "}", " ">>,
     <<" ", "\\", "m", "e", "l", " ">>,
     <<" ", "\\", "b", "e", "a", "t", " ">>}

ScoreInputs ==
    {ScoreHeader \o <<"\\", "s", "c", "o", "r", "e", " ", "{", " ", "<", "<">> \o Concat(b) \o <<">", ">", " ", "}">> :
        b \in SeqsUpTo(ScoreBlocks, MaxStaves)}

ParseInputs == TempoInputs \cup ScoreInputs

Title == "song"

-----------------------------------------------------------------------------
(* The tokens of a section: each composed of parts, with what the parts    *)
(* stand for in LilyPond                                                   *)

MaxChord == 3         \* notes between the brackets of a chord

\* A run of duration digits and the u32 it stands for; a run that does
\* not fit a u32 falls back to the quarter.
DurationPart(text, duration) == [text |-> text, duration |-> duration]
DurationParts ==
    {DurationPart(<<>>, 4), DurationPart(<<"0">>, 0), DurationPart(<<"1">>, 1),
     DurationPart(<<"2">>, 2), DurationPart(<<"4">>, 4), DurationPart(<<"8">>, 8),
     DurationPart(<<"1", "6">>, 16), DurationPart(<<"3">>, 3),
     DurationPart(<<"9", "9", "9", "9", "9", "9", "9", "9", "9", "9", "9">>, 4)}

\* What follows the note letter, the accidental it is and the semitones it
\* adds; a lone i is no accidental.
AccidentalPart(text, accidental, semitones) ==
    [text |-> text, accidental |-> accidental, semitones |-> semitones]
AccidentalParts ==
    {AccidentalPart(<<>>, None, 0), AccidentalPart(<<"i", "s">>, Some("is"), 1),
     AccidentalPart(<<"e", "s">>, Some("es"), -1), AccidentalPart(<<"i">>, None, 0)}

\* A run of octave marks: how many raise and how many lower.
OctavePart(text, up, down) == [text |-> text, up |-> up, down |-> down]
OctaveParts ==
    {OctavePart(<<>>, 0, 0), OctavePart(<<"'">>, 1, 0), OctavePart(<<"'", "'">>, 2, 0),
     OctavePart(<<",">>, 0, 1), OctavePart(<<"'", ",">>, 1, 1)}

\* What may follow the duration: nothing, a dot, a tie, or (only after
\* digits) a stray octave mark.
TailParts == {<<>>, <<".">>, <<"~">>, <<"'">>}

NoteNames == {"c", "d", "e"}
Semitone(name) == CASE name = "c" -> 0 [] name = "d" -> 2 [] name = "e" -> 4

NoteToken(name, acc, oct, dur, tail) ==
    [text |-> <<name>> \o acc.text \o oct.text \o dur.text \o tail,
     name |-> name, acc |-> acc, oct |-> oct, dur |-> dur, tail |-> tail]
NoteTokens ==
    {NoteToken(n, a, o, d, t) :
        n \in NoteNames, a \in AccidentalParts, o \in OctaveParts,
        d \in DurationParts, t \in TailParts}
    \ {NoteToken(n, a, o, DurationPart(<<>>, 4), <<"'">>) :
        n \in NoteNames, a \in AccidentalParts, o \in OctaveParts}

\* The words between the brackets of a chord, with the note each stands
\* for (at duration 0, to be replaced) or None for a word that is no note.
ChordWord(text, note) == [text |-> text, note |-> note]
ChordWords ==
    {ChordWord(<<"c">>, Some(MkNote("c", 3, None, 0, 48, None))),
     ChordWord(<<"e", "'", "4">>, Some(MkNote("e", 4, None, 0, 64, None))),
     ChordWord(<<"g", "i", "s", ",", "8", ".">>, Some(MkNote("g", 2, Some("is"), 0, 44, None))),
     ChordWord(<<"d", "e", "s">>, Some(MkNote("d", 3, Some("es"), 0, 49, None))),
     ChordWord(<<"x">>, None)}

\* What follows the closing bracket, and the duration it stands for.
ChordSuffixes ==
    {DurationPart(<<>>, 4), DurationPart(<<"2">>, 2), DurationPart(<<"8">>, 8),
     DurationPart(<<"0">>, 0), DurationPart(<<"4", ".">>, 4), DurationPart(<<"1", "6", "~">>, 16),
     DurationPart(<<"9", "9", "9", "9", "9", "9", "9", "9", "9", "9", "9">>, 4)}

RECURSIVE WordsText(_)
WordsText(words) ==
    IF words = <<>> THEN <<>>
    ELSE IF Len(words) = 1 THEN words[1].text
    ELSE words[1].text \o <<" ">> \o WordsText(Tail(words))

ChordToken(words, suffix) ==
    [text |-> <<"<">> \o WordsText(words) \o <<">">> \o suffix.text,
     words |-> words, suffix |-> suffix]
ChordTokens ==
    {ChordToken(w, s) :
        w \in UNION {[1..k -> ChordWords] : k \in 1..MaxChord},
        s \in ChordSuffixes}

RestToken(dur, tail) == [text |-> <<"r">> \o dur.text \o tail, dur |-> dur]
RestTokens == {RestToken(d, t) : d \in DurationParts, t \in {<<>>, <<".">>}}

\* A drum name of LilyPond with the Strudel sound it maps to.
HitName(text, sound) == [text |-> text, sound |-> sound]
HitNames ==
    {HitName(<<"b", "d">>, "bd"), HitName(<<"s", "n">>, "sd"), HitName(<<"h", "h">>, "hh"),
     HitName(<<"h", "h", "c">>, "hh"), HitName(<<"h", "h", "o">>, "oh"), HitName(<<"h", "h", "p">>, "hhp"),
     HitName(<<"c", "y", "m", "c">>, "cr"), HitName(<<"c", "y", "m", "r">>, "rd"),
     HitName(<<"c", "y", "m", "c", "a">>, "cymca"), HitName(<<"c", "y", "m", "c", "b">>, "cymcb"),
     HitName(<<"t", "o", "m">>, "tom"), HitName(<<"t", "o", "m", "h">>, "ht"),
     HitName(<<"t", "o", "m", "m">>, "mt"), HitName(<<"t", "o", "m", "l">>, "lt"),
     HitName(<<"t", "o", "m", "f", "l">>, "tomfl"), HitName(<<"t", "o", "m", "f", "h">>, "tomfh"),
     HitName(<<"c", "b">>, "cb"), HitName(<<"c", "l">>, "cl"), HitName(<<"c", "p">>, "cp"),
     HitName(<<"c", "r">>, "cr"), HitName(<<"g", "u", "i">>, "gui"), HitName(<<"h", "c">>, "hc"),
     HitName(<<"l", "c">>, "lc"), HitName(<<"m", "c">>, "mc"), HitName(<<"r", "c">>, "rc"),
     HitName(<<"r", "i", "d", "e">>, "ride"), HitName(<<"r", "b">>, "rb"),
     HitName(<<"s", "s">>, "rim"), HitName(<<"t", "a", "m", "b">>, "tamb"),
     HitName(<<"t", "r", "i">>, "tri"), HitName(<<"w", "h", "l">>, "whl"),
     HitName(<<"w", "h", "s">>, "whs"), HitName(<<"p", "e", "d", "a", "l", "h", "i", "h", "a", "t">>, "pedalhihat"),
     HitName(<<"h", "i", "h", "a", "t">>, "hihat"), HitName(<<"o", "p", "e", "n", "h", "a", "t">>, "openhat"),
     HitName(<<"c", "l", "o", "s", "e", "h", "a", "t">>, "closehat")}
HitToken(name, dur) ==
    [text |-> name.text \o dur.text, name |-> name, dur |-> dur]
HitTokens == {HitToken(n, d) : n \in HitNames, d \in DurationParts}

\* Tokens that are not a note, a chord, a rest or a hit.
OtherTokens ==
    {<<"|">>, <<"\\", "t", "i", "m", "e">>, <<"R", "1">>, <<"x", "x", "4">>, REPEAT_END,
     REPEAT_START \o <<"2">> \o UNDERSCORES,
     COMMENT_START \o <<"x">> \o UNDERSCORES}

\* Tokens that start with a note letter and go on with something else.
StrayNoteTokens ==
    {<<"c", "x">>, <<"c", "4", "x">>, <<"c", "i", "s", "4", ".", "x">>, <<"c", "e">>, <<"c", "e", "'", "8">>, <<"e", "s">>, <<"e", "e", "s">>, <<"c", "4", "!">>,
     <<"c", "!", "4">>, <<"c", "s">>}

TextsOf(tokens) == {t.text : t \in tokens}

PitchedTokenInputs ==
    TextsOf(NoteTokens) \cup TextsOf(ChordTokens) \cup TextsOf(RestTokens)
    \cup OtherTokens \cup StrayNoteTokens
\* Tokens of a drum section whose name is no drum of the table.
StrayDrumTokens ==
    {<<"r">>, <<"r", "x">>, <<"r", "r", "4">>, <<"s", "n", "a", "r", "e", "8">>, <<"h", "h", "h">>, <<"b", "d", "x">>, <<"4", "b", "d">>, <<"b">>, <<"B", "D", "4">>,
     <<"r", "i", "d", "e", "s">>, <<"r", "i", "4">>}
\* Drum names with something after the digits.
TailedHitTokens == {<<"b", "d", "4", ".">>, <<"r", "b", "8", "~">>, <<"s", "n", "4", "x", "8">>, <<"r", "c", ".", "4">>, <<"r", "i", "d", "e", "2", "|">>}

DrumTokenInputs ==
    TextsOf(HitTokens) \cup TextsOf(RestTokens) \cup OtherTokens
    \cup StrayDrumTokens \cup TailedHitTokens
-----------------------------------------------------------------------------
(* Inputs of expand_includes: a directory of files and a text              *)

MaxIncludes == 2

\* The names an include directive can hold; no file is called "c".
IncludeNames == {"a", "b", "c"}
FileNames == {"a", "b"}

Include(name) == <<"\\", "i", "n", "c", "l", "u", "d", "e", " ", "\"">> \o <<name, "\"">>

\* Include directives one after the other.
RECURSIVE Includes(_)
Includes(names) ==
    IF names = <<>> THEN <<>>
    ELSE IF Len(names) = 1 THEN Include(names[1])
    ELSE Include(names[1]) \o <<" ">> \o Includes(Tail(names))

\* The texts of a file: directives, plain text, text around a directive, a
\* keyword with no file name after it, a quoted name with no keyword, a
\* keyword in front of a directive.
IncludeTexts ==
    {Includes(names) : names \in SeqsUpTo(IncludeNames, MaxIncludes)}
    \cup {<<"x">>, <<"\\", "i", "n", "c", "l", "u", "d", "e", " ">>}
    \cup {<<"\"", n, "\"">> : n \in IncludeNames}
    \cup {<<"x", " ">> \o Include(n) \o <<" ", "y">> : n \in IncludeNames}
    \cup {<<"\\", "i", "n", "c", "l", "u", "d", "e", " ">> \o Include(n) : n \in IncludeNames}

\* The directories: each file name has no file or a file with a text.
Directories ==
    [FileNames -> {None} \cup {Some(t) : t \in IncludeTexts}]
-----------------------------------------------------------------------------
(* Inputs of extract_braced_content and tokenize                           *)

MaxScan == 5

BraceAlphabet == {"{", "}", "<", ">", "c"}
BraceTexts == SeqsUpTo(BraceAlphabet, MaxScan)

SectionAlphabet == {"<", ">", " ", "\n", "c", "4"}

\* Sections that hold a chord: text before it, the chord, text after it.
ChordSections ==
    {before \o chord \o after :
        before \in {<<>>, <<"d">>, <<"d", " ">>},
        chord \in {<<"<", "c", " ", "e", ">">>, <<"<", "c", " ", " ", "e", "\n", "g", ">">>, <<"<", "c", " ", "e">>},
        after \in {<<>>, <<"4">>, <<"8", ".">>, <<" ", "f">>, <<"4", " ", "f">>, <<"2", "<", "e", " ", "g", ">">>}}

Sections == SeqsUpTo(SectionAlphabet, MaxScan) \cup ChordSections
-----------------------------------------------------------------------------
(* mark_repeats one iteration at a time, then the parse of the marked text *)
(* of a variable (lib.rs 229-243, 419, 425, 714-752)                       *)

MarkInit ==
    /\ source \in MarkInputs
    /\ loop_result = source
    /\ mark_pc = "loop"
    /\ parsed_events = None
    /\ loop_changed = FALSE /\ resolve_pc = "idle"
    /\ ParseIdle /\ GenIdle /\ TokenIdle /\ WalkIdle /\ IncludeIdle /\ ScanIdle

\* One iteration of the loop: break, panic, or the next result.
MarkRepeatsStep ==
    /\ mark_pc = "loop"
    /\ LET it == MarkRepeatsIteration(loop_result) IN
        /\ mark_pc' = IF ~it.matched THEN "marked"
                      ELSE IF it.panicked THEN "panicked"
                      ELSE "loop"
        /\ loop_result' = it.text
    /\ UNCHANGED <<scanVars, includeVars, tokenVars, walkVars, parsed_events, loop_changed, resolve_pc, parseVars, genVars>>

\* parse_notes_from_section on the marked content of a pitched variable.
ParseNotes ==
    /\ mark_pc = "marked"
    /\ BracesBalanced(source)
    /\ parsed_events' = Some(parse_notes_from_section(loop_result))
    /\ mark_pc' = "notes"
    /\ UNCHANGED <<scanVars, includeVars, tokenVars, walkVars, loop_result, loop_changed, resolve_pc, parseVars, genVars>>

\* parse_drums_from_section on the marked content of a drummode variable.
ParseDrums ==
    /\ mark_pc = "marked"
    /\ BracesBalanced(source)
    /\ parsed_events' = Some(parse_drums_from_section(loop_result))
    /\ mark_pc' = "drums"
    /\ UNCHANGED <<scanVars, includeVars, tokenVars, walkVars, loop_result, loop_changed, resolve_pc, parseVars, genVars>>

MarkNext == MarkRepeatsStep \/ ParseNotes \/ ParseDrums

SpecMark == MarkInit /\ [][MarkNext]_vars

-----------------------------------------------------------------------------
(* resolve_variables one step at a time (lib.rs 454-483)                   *)

ResolveInit ==
    /\ source \in ResolveContents
    /\ variable_map \in {Some(t) : t \in ResolveTables}
    /\ loop_result = source
    /\ loop_changed = FALSE
    /\ resolve_pc = "replace"
    /\ mark_pc = "idle" /\ parsed_events = None
    /\ parse_pc = "idle" /\ marked_code = None /\ sim_content = None
    /\ parsed_staves = <<>> /\ parse_result = None
    /\ GenIdle /\ TokenIdle /\ WalkIdle /\ IncludeIdle /\ ScanIdle

\* let mut changed = false; replace_all; result = new_result.  A String of
\* more than MaxText characters cannot be allocated.
ReplaceAll ==
    /\ resolve_pc = "replace"
    /\ LET pass == ReplaceAllIn(loop_result, Unwrap(variable_map)) IN
        IF Len(pass.text) > MaxText
        THEN /\ resolve_pc' = "exhausted"
             /\ UNCHANGED <<loop_result, loop_changed>>
        ELSE /\ loop_result' = pass.text
             /\ loop_changed' = pass.changed
             /\ resolve_pc' = "check"
    /\ UNCHANGED <<scanVars, includeVars, tokenVars, walkVars, mark_pc, parsed_events, source, variable_map, parse_pc,
                   marked_code, sim_content, parsed_staves, parse_result, genVars>>

\* if !changed { break; }
CheckChanged ==
    /\ resolve_pc = "check"
    /\ resolve_pc' = IF loop_changed THEN "replace" ELSE "done"
    /\ UNCHANGED <<scanVars, includeVars, tokenVars, walkVars, loop_result, loop_changed, mark_pc, parsed_events,
                   parseVars, genVars>>

ResolveNext == ReplaceAll \/ CheckChanged

SpecResolve == ResolveInit /\ [][ResolveNext]_vars

\* The loop keeps running while it can: the program does not stop halfway.
SpecResolveFair == SpecResolve /\ WF_vars(ResolveNext)

-----------------------------------------------------------------------------
(* LilyPondParser::parse, then generate_html (lib.rs 225-258, 328-441,     *)
(* bin/sequence.rs 86-106)                                                 *)

MissingTempo ==
    <<"Missing ", "tempo", ": LilyPond input must include a \\", "tempo",
      " directive (e.g., \\", "tempo", " 4 = 120)">>

Ok(s, t) == [ok |-> TRUE, staves |-> s, tempo |-> t]
Err(message) == [ok |-> FALSE, err |-> message]

ParseInit ==
    /\ source \in ParseInputs
    /\ parse_pc = "tempo"
    /\ variable_map = None /\ marked_code = None /\ sim_content = None
    /\ parsed_staves = <<>> /\ parse_result = None
    /\ LoopIdle /\ GenIdle /\ TokenIdle /\ WalkIdle /\ IncludeIdle /\ ScanIdle

\* let tempo = self.parse_tempo(code).ok_or("Missing tempo: ...")?;
ParseTempo ==
    /\ parse_pc = "tempo"
    /\ tempo' = parse_tempo(source)
    /\ IF IsNone(tempo')
       THEN /\ parse_result' = Some(Err(MissingTempo))
            /\ parse_pc' = "done"
       ELSE /\ parse_pc' = "variables"
            /\ UNCHANGED parse_result
    /\ UNCHANGED <<scanVars, includeVars, tokenVars, walkVars, source, variable_map, marked_code, sim_content, parsed_staves,
                   staff, gen_pc, counted, pattern, out, loopVars>>

\* let variables = self.parse_variables(code);
ParseVariables ==
    /\ parse_pc = "variables"
    /\ variable_map' = Some(parse_variables(source))
    /\ parse_pc' = "mark"
    /\ UNCHANGED <<scanVars, includeVars, tokenVars, walkVars, source, marked_code, sim_content, parsed_staves, parse_result,
                   genVars, loopVars>>

\* let marked = self.mark_repeats(code); let variables_marked = ...: a
\* panic of mark_repeats leaves no marked code, or no map.
MarkRepeats ==
    /\ parse_pc = "mark"
    /\ marked_code' = mark_repeats(source)
    /\ variable_map' = IF IsNone(marked_code') THEN variable_map
                       ELSE MarkVariables(Unwrap(variable_map))
    /\ parse_pc' = IF IsNone(marked_code') \/ IsNone(variable_map')
                   THEN "panicked" ELSE "score"
    /\ UNCHANGED <<scanVars, includeVars, tokenVars, walkVars, source, sim_content, parsed_staves, parse_result, genVars,
                   loopVars>>

\* parse_score_staves up to the end of the \new Staff / \new TabStaff loop.
PitchedStaves ==
    /\ parse_pc = "score"
    /\ sim_content' = SimultaneousContent(Unwrap(marked_code))
    /\ IF IsNone(sim_content')
       THEN /\ parse_pc' = "fallback"
            /\ UNCHANGED parsed_staves
       ELSE /\ parsed_staves' =
                 PitchedStavesIn(Unwrap(sim_content'),
                                 staff_re(Unwrap(sim_content')),
                                 Unwrap(variable_map))
            /\ parse_pc' = "drum_staves"
    /\ UNCHANGED <<scanVars, includeVars, tokenVars, walkVars, source, variable_map, marked_code, parse_result, genVars,
                   loopVars>>

\* The \new DrumStaff loop.
DrumStaves ==
    /\ parse_pc = "drum_staves"
    /\ parsed_staves' = parsed_staves \o
           DrumStavesIn(Unwrap(sim_content), drum_staff_re(Unwrap(sim_content)),
                        Unwrap(variable_map))
    /\ parse_pc' = "var_refs"
    /\ UNCHANGED <<scanVars, includeVars, tokenVars, walkVars, source, variable_map, marked_code, sim_content, parse_result,
                   genVars, loopVars>>

\* The bare variable references when no block gave a staff, then the
\* return of parse_score_staves: Ok(Some(staves)) returns from parse.
VariableRefs ==
    /\ parse_pc = "var_refs"
    /\ parsed_staves' =
           IF parsed_staves = <<>>
           THEN VariableRefStaves(Unwrap(sim_content),
                                  FindAll(var_ref_re(Unwrap(sim_content)), 1),
                                  Unwrap(variable_map))
           ELSE parsed_staves
    /\ IF parsed_staves' = <<>>
       THEN /\ parse_pc' = "fallback"
            /\ UNCHANGED parse_result
       ELSE /\ parse_result' = Some(Ok(parsed_staves', Unwrap(tempo)))
            /\ parse_pc' = "done"
    /\ UNCHANGED <<scanVars, includeVars, tokenVars, walkVars, source, variable_map, marked_code, sim_content, genVars,
                   loopVars>>

\* Fallback: parse as single staff.
Fallback ==
    /\ parse_pc = "fallback"
    /\ LET notes_section == extract_notes_section(Unwrap(marked_code)) IN
        IF ~notes_section.ok
        THEN /\ parse_result' = Some(Err(<<notes_section.err>>))
             /\ UNCHANGED parsed_staves
        ELSE /\ parsed_staves' =
                  <<new_pitched(parse_notes_from_section(notes_section.text))>>
             /\ parse_result' = Some(Ok(parsed_staves', Unwrap(tempo)))
    /\ parse_pc' = "done"
    /\ UNCHANGED <<scanVars, includeVars, tokenVars, walkVars, source, variable_map, marked_code, sim_content, genVars,
                   loopVars>>

\* generate_html(&result.staves, Some(&result.tempo), stem) on Ok.
GenerateHtml ==
    /\ parse_pc = "done"
    /\ Unwrap(parse_result).ok
    /\ out' = Some(generate_html(Unwrap(parse_result).staves,
                                 Some(Unwrap(parse_result).tempo), Title))
    /\ parse_pc' = "generated"
    /\ UNCHANGED <<scanVars, includeVars, tokenVars, walkVars, source, variable_map, marked_code, sim_content, parsed_staves,
                   parse_result, staff, tempo, gen_pc, counted, pattern, loopVars>>

ParseNext ==
    \/ ParseTempo \/ ParseVariables \/ MarkRepeats \/ PitchedStaves
    \/ DrumStaves \/ VariableRefs \/ Fallback \/ GenerateHtml

SpecParse == ParseInit /\ [][ParseNext]_vars

-----------------------------------------------------------------------------
(* One token through the loop body of parse_notes_from_section or          *)
(* parse_drums_from_section, then its event through the loop body of the   *)
(* pattern generator (lib.rs 500-514, 527-541, 1198-1206, 1328-1336)       *)

TokenInit ==
    /\ \/ token_mode = "pitched" /\ token_str \in PitchedTokenInputs
       \/ token_mode = "drums" /\ token_str \in DrumTokenInputs
    /\ token_event = None
    /\ token_out = None
    /\ token_pc = "parse"
    /\ source = <<>> /\ ParseIdle /\ LoopIdle /\ GenIdle /\ WalkIdle /\ IncludeIdle /\ ScanIdle

\* The event the token pushes, if any.
ParseToken ==
    /\ token_pc = "parse"
    /\ token_event' = IF token_mode = "pitched" THEN PitchedEventOf(token_str)
                      ELSE DrumEventOf(token_str)
    /\ token_pc' = "parsed"
    /\ UNCHANGED <<token_str, token_mode, token_out, genVars, parseVars,
                   loopVars, walkVars, includeVars, scanVars>>

\* current_bar.push(format_pitched_note(n) | format_drum_hit(h)
\* | format_rest(duration)); the other events push nothing.  4 / duration
\* panics when the duration of a rest is 0.
FormatEvent ==
    /\ token_pc = "parsed"
    /\ IsSome(token_event)
    /\ LET e == Unwrap(token_event) IN
        IF e.type = "Rest" /\ e.duration = 0
        THEN /\ token_pc' = "panicked"
             /\ UNCHANGED token_out
        ELSE /\ token_out' =
                  CASE e.type = "Note" -> Some(format_pitched_note(e.note))
                    [] e.type = "Hit" -> Some(format_drum_hit(e.hit))
                    [] e.type = "Rest" -> Some(format_rest(e.duration))
                    [] OTHER -> None
             /\ token_pc' = "formatted"
    /\ UNCHANGED <<token_str, token_mode, token_event, genVars, parseVars,
                   loopVars, walkVars, includeVars, scanVars>>

TokenNext == ParseToken \/ FormatEvent

SpecToken == TokenInit /\ [][TokenNext]_vars
-----------------------------------------------------------------------------
(* The bar walks one loop iteration at a time: count_pitched_bars,         *)
(* count_drum_bars, generate_pitched_pattern_with_bars and                 *)
(* generate_drum_pattern_with_bars (lib.rs 1032-1119, 1192-1250,           *)
(* 1322-1380).  walk_frames holds the locals of the running calls, the     *)
(* innermost call first; count is the repeat count the caller multiplies   *)
(* the returned bars by.                                                   *)

CountFrame(count) == [bars |-> 0, has_content |-> FALSE, count |-> count]
PatternFrame(count) ==
    [bars |-> <<>>, current_bar |-> <<>>, bar_count |-> 0, count |-> count]

WalkPitchedAlphabet ==
    {NoteC, BarLine, RepeatStart(2), RepeatEnd, CommentEv("x")}
WalkDrumAlphabet ==
    {HitBd, BarLine, RepeatStart(2), RepeatEnd, CommentEv("x")}
WalkPitchedInputs ==
    SeqsUpTo(WalkPitchedAlphabet, MaxEvents)
    \cup NestedShapes(PitchedBarPool) \cup RepeatShapes(PitchedBarPool, NoteC)
WalkDrumInputs ==
    SeqsUpTo(WalkDrumAlphabet, MaxEvents)
    \cup NestedShapes(DrumBarPool) \cup RepeatShapes(DrumBarPool, HitBd)

WalkInit ==
    /\ \/ /\ walk_kind \in {"pitched_count", "pitched_pattern"}
          /\ walk_events \in WalkPitchedInputs
       \/ /\ walk_kind \in {"drum_count", "drum_pattern"}
          /\ walk_events \in WalkDrumInputs
    /\ walk_idx = 0
    /\ walk_frames = IF walk_kind \in {"pitched_count", "drum_count"}
                     THEN <<CountFrame(1)>> ELSE <<PatternFrame(1)>>
    /\ walk_pc = "walk"
    /\ source = <<>> /\ ParseIdle /\ LoopIdle /\ GenIdle /\ TokenIdle /\ IncludeIdle /\ ScanIdle

\* The loop of the innermost call runs on: there is an event and it is no
\* RepeatEnd.
WalkGoesOn ==
    /\ walk_idx < Len(walk_events)
    /\ walk_events[walk_idx + 1].type # "RepeatEnd"

\* Mutant of CountFlushed: a bar is counted at every boundary.
CountFlushedAlways(f) ==
    [f EXCEPT !.bars = f.bars + 1, !.has_content = FALSE]

\* if has_content { bars += 1; has_content = false; }
CountFlushed(f) ==
    [f EXCEPT !.bars = f.bars + BoolToBar(f.has_content),
              !.has_content = FALSE]

\* One iteration of the loop of count_*_bars on the event e.
CountEvent(f, rest, e, sounding) ==
    CASE e.type \in {sounding, "Rest"} ->
           <<[f EXCEPT !.has_content = TRUE]>> \o rest
      [] e.type = "BarLine" -> <<CountFlushed(f)>> \o rest
      [] e.type = "RepeatStart" ->
           <<CountFrame(e.count), CountFlushed(f)>> \o rest
      [] OTHER -> <<f>> \o rest

\* Mutant of CountReturn: the bars of a repeat are counted once.
CountReturnOnce(inner, rest) ==
    IF rest = <<>> THEN <<inner>>
    ELSE <<[rest[1] EXCEPT !.bars = rest[1].bars + inner.bars]>> \o Tail(rest)

\* The call returns inner_bars: bars += inner_bars * count in the caller.
CountReturn(inner, rest) ==
    IF rest = <<>> THEN <<inner>>
    ELSE <<[rest[1] EXCEPT !.bars = rest[1].bars + inner.bars * inner.count]>>
         \o Tail(rest)

CountStep(sounding) ==
    /\ walk_pc = "walk"
    /\ IF WalkGoesOn
       THEN /\ walk_frames' = CountEvent(Head(walk_frames), Tail(walk_frames),
                                         walk_events[walk_idx + 1], sounding)
            /\ walk_idx' = walk_idx + 1
            /\ walk_pc' = "walk"
       ELSE /\ walk_frames' = CountReturn(CountFlushed(Head(walk_frames)),
                                          Tail(walk_frames))
            /\ walk_idx' = IF walk_idx < Len(walk_events)
                           THEN walk_idx + 1 ELSE walk_idx
            /\ walk_pc' = IF Len(walk_frames) = 1 THEN "done" ELSE "walk"
    /\ UNCHANGED <<walk_kind, walk_events, genVars, parseVars, loopVars,
                   tokenVars, includeVars, scanVars>>

CountPitchedStep == walk_kind = "pitched_count" /\ CountStep("Note")
CountDrumStep == walk_kind = "drum_count" /\ CountStep("Hit")

\* if !current_bar.is_empty() { bars.push(..); current_bar = new;
\* bar_count += 1 }
PatternFlushed(f) ==
    [f EXCEPT !.bars = FlushBars(f.bars, f.current_bar),
              !.bar_count = FlushCount(f.bar_count, f.current_bar),
              !.current_bar = <<>>]

FormatSounding(e) ==
    CASE e.type = "Note" -> format_pitched_note(e.note)
      [] e.type = "Hit" -> format_drum_hit(e.hit)
      [] e.type = "Rest" -> format_rest(e.duration)

\* One iteration of the loop of generate_*_pattern_with_bars on the event e.
PatternEvent(f, rest, e, sounding) ==
    CASE e.type \in {sounding, "Rest"} ->
           <<[f EXCEPT !.current_bar = Append(f.current_bar, FormatSounding(e))]>>
           \o rest
      [] e.type = "BarLine" -> <<PatternFlushed(f)>> \o rest
      [] e.type = "RepeatStart" ->
           <<PatternFrame(e.count), PatternFlushed(f)>> \o rest
      [] OTHER -> <<f>> \o rest

\* The call returns (bars.join("\n"), bar_count): the caller pushes the
\* group of the repeat and adds its bars.
PatternReturn(inner, rest) ==
    IF rest = <<>> THEN <<inner>>
    ELSE <<[rest[1] EXCEPT
              !.bars = Append(rest[1].bars,
                              RepeatGroup(Join(inner.bars, "\n"),
                                          inner.bar_count, inner.count)),
              !.bar_count = rest[1].bar_count
                            + total_bars(inner.bar_count, inner.count)]>>
         \o Tail(rest)

PatternStep(sounding) ==
    /\ walk_pc = "walk"
    /\ IF WalkGoesOn
       THEN /\ walk_frames' = PatternEvent(Head(walk_frames), Tail(walk_frames),
                                           walk_events[walk_idx + 1], sounding)
            /\ walk_idx' = walk_idx + 1
            /\ walk_pc' = "walk"
       ELSE /\ walk_frames' = PatternReturn(PatternFlushed(Head(walk_frames)),
                                            Tail(walk_frames))
            /\ walk_idx' = IF walk_idx < Len(walk_events)
                           THEN walk_idx + 1 ELSE walk_idx
            /\ walk_pc' = IF Len(walk_frames) = 1 THEN "done" ELSE "walk"
    /\ UNCHANGED <<walk_kind, walk_events, genVars, parseVars, loopVars,
                   tokenVars, includeVars, scanVars>>

PitchedPatternStep == walk_kind = "pitched_pattern" /\ PatternStep("Note")
DrumPatternStep == walk_kind = "drum_pattern" /\ PatternStep("Hit")

WalkNext ==
    CountPitchedStep \/ CountDrumStep \/ PitchedPatternStep \/ DrumPatternStep

SpecWalk == WalkInit /\ [][WalkNext]_vars
-----------------------------------------------------------------------------
(* expand_includes and expand_includes_recursive (lib.rs 160-205)          *)

\* Path::canonicalize: the path of an existing file, or an error.
Exists(files, file_name) ==
    file_name \in DOMAIN files /\ IsSome(files[file_name])

CannotResolve(file_name) ==
    <<"Cannot resolve include \"", file_name, "\": ",
      "No such file or directory (os error 2)">>
CircularInclude(file_name) ==
    <<"Circular include", " detected: \"", file_name, "\"">>

\* A call of expand_includes_recursive: its local result and, while a call
\* it made is running, the start and end of full_match (0: none).
IncludeFrame(code) == [result |-> code, start |-> 0, end |-> 0]

\* The name captured by the match that begins at start.
CapturedName(result, start) ==
    Str(Slice(result, QuoteOpen(result, start), IncludeAt(result, start) - 1))

IncludeInit ==
    /\ inc_files \in Directories
    /\ inc_seen = {}
    /\ source \in IncludeTexts
    /\ inc_stack = <<IncludeFrame(source)>>
    /\ inc_result = None
    /\ inc_pc = "loop"
    /\ ParseIdle /\ LoopIdle /\ GenIdle /\ TokenIdle
    /\ WalkIdle /\ ScanIdle

\* The match the innermost call finds in its result, 0 when there is none.
IncludeMatch == Find(include_re(inc_stack[1].result), 1)

\* One iteration of the loop up to the call for the included file: an
\* error of canonicalize or a path already in seen returns Err from every
\* running call.
IncludeFile(result, start, file_name) ==
    IF ~Exists(inc_files, file_name)
    THEN /\ inc_result' = Some(Err(CannotResolve(file_name)))
         /\ inc_pc' = "done"
         /\ UNCHANGED <<inc_seen, inc_stack>>
    ELSE IF file_name \in inc_seen
    THEN /\ inc_result' = Some(Err(CircularInclude(file_name)))
         /\ inc_pc' = "done"
         /\ UNCHANGED <<inc_seen, inc_stack>>
    ELSE /\ inc_seen' = inc_seen \cup {file_name}
         /\ inc_stack' =
              <<IncludeFrame(Unwrap(inc_files[file_name])),
                [inc_stack[1] EXCEPT !.start = start,
                                     !.end = IncludeAt(result, start)]>>
              \o Tail(inc_stack)
         /\ UNCHANGED <<inc_result, inc_pc>>

IncludeIteration ==
    /\ inc_pc = "loop"
    /\ IncludeMatch # 0
    /\ IncludeFile(inc_stack[1].result, IncludeMatch,
                   CapturedName(inc_stack[1].result, IncludeMatch))
    /\ UNCHANGED <<inc_files, genVars, parseVars, loopVars, tokenVars,
                   walkVars, scanVars>>

\* result = format!("{}{}{}", &result[..start], expanded, &result[end..])
SpliceExpanded(frame, expanded) ==
    [result |-> Slice(frame.result, 1, frame.start) \o expanded
                \o SliceFrom(frame.result, frame.end),
     start |-> 0, end |-> 0]

\* No match is left: the call returns Ok(result), to the call that made it
\* or to expand_includes.
IncludeReturn ==
    /\ inc_pc = "loop"
    /\ IncludeMatch = 0
    /\ IF Len(inc_stack) = 1
       THEN /\ inc_result' = Some([ok |-> TRUE, text |-> inc_stack[1].result])
            /\ inc_pc' = "done"
            /\ UNCHANGED inc_stack
       ELSE /\ inc_stack' = <<SpliceExpanded(inc_stack[2], inc_stack[1].result)>>
                            \o SubSeq(inc_stack, 3, Len(inc_stack))
            /\ UNCHANGED <<inc_result, inc_pc>>
    /\ UNCHANGED <<inc_files, inc_seen, genVars, parseVars, loopVars, tokenVars,
                   walkVars, scanVars>>

IncludeNext == IncludeIteration \/ IncludeReturn

SpecInclude == IncludeInit /\ [][IncludeNext]_vars

-----------------------------------------------------------------------------
(* extract_braced_content (lib.rs 309-326) and tokenize (lib.rs 792-830),  *)
(* one character of the loop at a time                                     *)

ScanInit ==
    /\ \/ /\ scan_kind = "braces"
          /\ scan_text \in BraceTexts
          /\ scan_start \in {i \in 0..(MaxScan - 1) :
                               i < Len(scan_text) /\ scan_text[i + 1] = "{"}
          /\ scan_pos = scan_start + 2
          /\ scan_locals = [depth |-> 1]
       \/ /\ scan_kind = "tokenize"
          /\ scan_text \in Sections
          /\ scan_start = 0
          /\ scan_pos = 1
          /\ scan_locals = [tokens |-> <<>>, current |-> <<>>, in_chord |-> FALSE]
    /\ scan_result = None
    /\ scan_pc = "scan"
    /\ source = <<>> /\ ParseIdle /\ LoopIdle /\ GenIdle /\ TokenIdle
    /\ WalkIdle /\ IncludeIdle

\* Mutant of BraceChar: chord brackets count as braces.
BraceCharCountingChords(c) ==
    IF c \in {"}", ">"} /\ scan_locals.depth = 1
    THEN /\ scan_result' = Some(Some(Slice(scan_text, scan_start + 2, scan_pos)))
         /\ scan_pc' = "done"
         /\ scan_locals' = [depth |-> 0]
         /\ UNCHANGED scan_pos
    ELSE /\ scan_locals' = [depth |-> CASE c \in {"{", "<"} -> scan_locals.depth + 1
                                        [] c \in {"}", ">"} -> scan_locals.depth - 1
                                        [] OTHER -> scan_locals.depth]
         /\ scan_pos' = scan_pos + 1
         /\ UNCHANGED <<scan_result, scan_pc>>

\* for (i, c) in code[brace_start + 1..].char_indices(): one character, or
\* the None after the loop.
BraceChar(c) ==
    IF c = "}" /\ scan_locals.depth = 1
    THEN /\ scan_result' = Some(Some(Slice(scan_text, scan_start + 2, scan_pos)))
         /\ scan_pc' = "done"
         /\ scan_locals' = [depth |-> 0]
         /\ UNCHANGED scan_pos
    ELSE /\ scan_locals' = [depth |-> CASE c = "{" -> scan_locals.depth + 1
                                        [] c = "}" -> scan_locals.depth - 1
                                        [] OTHER -> scan_locals.depth]
         /\ scan_pos' = scan_pos + 1
         /\ UNCHANGED <<scan_result, scan_pc>>

BraceStep ==
    /\ scan_kind = "braces" /\ scan_pc = "scan"
    /\ IF scan_pos > Len(scan_text)
       THEN /\ scan_result' = Some(None)
            /\ scan_pc' = "done"
            /\ UNCHANGED <<scan_locals, scan_pos>>
       ELSE BraceChar(scan_text[scan_pos])
    /\ UNCHANGED <<scan_kind, scan_text, scan_start, genVars, parseVars,
                   loopVars, tokenVars, walkVars, includeVars>>

\* tokens.push(current.trim().to_string()) when the guard holds.
PushTrimmed(tokens, current, guard) ==
    IF guard THEN Append(tokens, trim(current)) ELSE tokens

\* Mutant of TokenizeChar: whitespace ends the token inside a chord too.
TokenizeCharSplittingChords(l, c) ==
    IF c = "<"
    THEN [tokens |-> PushTrimmed(l.tokens, l.current, trim(l.current) # <<>>),
          current |-> <<c>>, in_chord |-> TRUE]
    ELSE IF c = ">"
    THEN [l EXCEPT !.current = Append(l.current, c), !.in_chord = FALSE]
    ELSE IF is_whitespace(c)
    THEN [tokens |-> PushTrimmed(l.tokens, l.current, l.current # <<>>),
          current |-> <<>>, in_chord |-> l.in_chord]
    ELSE [l EXCEPT !.current = Append(l.current, c)]

\* The body of for c in section.chars().
TokenizeChar(l, c) ==
    IF c = "<"
    THEN [tokens |-> PushTrimmed(l.tokens, l.current, trim(l.current) # <<>>),
          current |-> <<c>>, in_chord |-> TRUE]
    ELSE IF c = ">"
    THEN [l EXCEPT !.current = Append(l.current, c), !.in_chord = FALSE]
    ELSE IF is_whitespace(c)
    THEN IF l.in_chord THEN [l EXCEPT !.current = Append(l.current, " ")]
         ELSE [tokens |-> PushTrimmed(l.tokens, l.current, l.current # <<>>),
               current |-> <<>>, in_chord |-> l.in_chord]
    ELSE [l EXCEPT !.current = Append(l.current, c)]

\* The push after the loop and tokens.into_iter().filter(|s| !s.is_empty()).
TokenizeEnd(l) ==
    SelectSeq(PushTrimmed(l.tokens, l.current, trim(l.current) # <<>>),
              LAMBDA t : t # <<>>)

TokenizeStep ==
    /\ scan_kind = "tokenize" /\ scan_pc = "scan"
    /\ IF scan_pos > Len(scan_text)
       THEN /\ scan_result' = Some(TokenizeEnd(scan_locals))
            /\ scan_pc' = "done"
            /\ UNCHANGED <<scan_locals, scan_pos>>
       ELSE /\ scan_locals' = TokenizeChar(scan_locals, scan_text[scan_pos])
            /\ scan_pos' = scan_pos + 1
            /\ UNCHANGED <<scan_result, scan_pc>>
    /\ UNCHANGED <<scan_kind, scan_text, scan_start, genVars, parseVars,
                   loopVars, tokenVars, walkVars, includeVars>>

ScanNext == BraceStep \/ TokenizeStep

SpecScan == ScanInit /\ [][ScanNext]_vars

-----------------------------------------------------------------------------
(* Properties of the generator                                             *)

GenRan == gen_pc \in {"patterned", "done"}

\* The staff's total bar count: its own, or the largest of its voices'.
RECURSIVE MaxBarsOf(_)
MaxBarsOf(results) ==
    IF results = <<>> THEN 0 ELSE Max(results[1].bars, MaxBarsOf(Tail(results)))

\* C5: for RepeatStart(O), RepeatStart(I), a body of B bars, RepeatEnd,
\* RepeatEnd, both count_*_bars and generate_*_pattern_with_bars return the
\* bar count B*I*O.
C5_NestedRepeatBars ==
    GenRan =>
        \A k \in 1..Len(EventSeqs(staff)) :
            \A o \in RepeatCounts, i \in RepeatCounts :
                \A b \in BarSeqs(IF staff.kind = "Pitched" THEN PitchedBarPool
                                 ELSE DrumBarPool, MaxBodyBars) :
                    EventSeqs(staff)[k] = NestedRepeat(o, i, BarsToEvents(b))
                    => /\ counted[k].bars = Len(b) * i * o
                       /\ pattern[k].bars = Len(b) * i * o

\* A nested repeat of a two-bar body, 3 times inside 2 times, was counted
\* and generated as 12 bars.
C5_Witness ==
    /\ gen_pc = "done"
    /\ staff.kind = "Pitched"
    /\ staff.content =
         NestedRepeat(2, 3, BarsToEvents(<<<<NoteC>>, <<Rest1>>>>))
    /\ counted[1].bars = 12
    /\ pattern[1].bars = 12

\* The inner texts of the top-level bracket groups of a text, found by
\* counting "[" and "]" (a group inside a group belongs to the outer one).
RECURSIVE ScanGroups(_, _, _)
ScanGroups(text, depth, groups) ==
    IF text = <<>> THEN groups
    ELSE LET c == text[1]
             n == Len(groups)
             AddToLast == [groups EXCEPT ![n] = Append(@, c)]
         IN  CASE c = "[" /\ depth = 0 ->
                    ScanGroups(Tail(text), 1, Append(groups, <<>>))
               [] c = "[" -> ScanGroups(Tail(text), depth + 1, AddToLast)
               [] c = "]" /\ depth = 1 -> ScanGroups(Tail(text), 0, groups)
               [] c = "]" -> ScanGroups(Tail(text), depth - 1, AddToLast)
               [] depth > 0 -> ScanGroups(Tail(text), depth, AddToLast)
               [] OTHER -> ScanGroups(Tail(text), depth, groups)

TopGroups(text) == ScanGroups(text, 0, <<>>)

\* The items of one bar as the generator formats them.
FormatPitchedItem(e) ==
    IF e.type = "Note" THEN format_pitched_note(e.note) ELSE format_rest(e.duration)

\* C6: a melodic body of N non-empty bars separated by bar markers, with no
\* repeats, generates exactly N bracketed bar groups, one per bar in source
\* order, each holding that bar's items in source order, and nothing else but
\* the line breaks between the groups.
C6_BarGroups ==
    (GenRan /\ staff.kind = "Pitched") =>
        \A b \in BarSeqs(PitchedBarPool, MaxBars) :
            staff.content = BarsToEvents(b)
            => LET groups == TopGroups(pattern[1].text) IN
               /\ Len(groups) = Len(b)
               /\ \A k \in 1..Len(b) :
                    groups[k] = Join([j \in 1..Len(b[k]) |->
                                        FormatPitchedItem(b[k][j])], " ")
               /\ pattern[1].text =
                    Join([k \in 1..Len(groups) |->
                            <<"[">> \o groups[k] \o <<"]">>], "\n")

\* Three bars, the last one with a chord, came out as three groups.
C6_Witness ==
    /\ gen_pc = "done"
    /\ staff.kind = "Pitched"
    /\ staff.content =
         BarsToEvents(<<<<NoteC, NoteD>>, <<Rest1>>, <<ChordA, Rest4, NoteC>>>>)
    /\ Str(pattern[1].text)
         = "[c4 d#4@0.5]\n[~ ~ ~ ~]\n[[a4,c4,eb4]@2 ~ c4]"

\* The index of the RepeatEnd that closes the region opened just before
\* position i (0-based), by depth counting; Len(events) when there is none.
RECURSIVE MatchingEnd(_, _, _)
MatchingEnd(events, i, depth) ==
    IF i >= Len(events) THEN Len(events)
    ELSE LET e == events[i + 1] IN
         IF e.type = "RepeatEnd" /\ depth = 0 THEN i
         ELSE IF e.type = "RepeatEnd" THEN MatchingEnd(events, i + 1, depth - 1)
         ELSE IF e.type = "RepeatStart" THEN MatchingEnd(events, i + 1, depth + 1)
         ELSE MatchingEnd(events, i + 1, depth)

GenerateWithBars(kind, events, idx) ==
    IF kind = "Pitched" THEN generate_pitched_pattern_with_bars(events, idx)
    ELSE generate_drum_pattern_with_bars(events, idx)

\* What the claim says a repeated region is rendered as.
ClaimedRepeatText(inner, inner_bars, count) ==
    IF inner_bars <= 1
    THEN <<"[">> \o inner \o <<"]", "!", ToString(count)>>
    ELSE <<"[", "[">> \o inner
         \o <<"]", "!", ToString(count), "]", "@", ToString(inner_bars * count)>>

\* C8: at every RepeatStart(count) the generator renders the region as
\* [inner]!count when the region has at most one bar and as
\* [[inner]!count]@(inner_bars*count) when it has more, where inner is the
\* text generated for the events up to the matching RepeatEnd; "@" follows
\* the group only in the multi-bar case.
C8_RepeatRendering ==
    GenRan =>
        \A k \in 1..Len(EventSeqs(staff)) :
            LET events == EventSeqs(staff)[k] IN
            \A i \in 0..(Len(events) - 1) :
                events[i + 1].type = "RepeatStart"
                => LET count == events[i + 1].count
                       stop == MatchingEnd(events, i + 1, 0)
                       inner == GenerateWithBars(staff.kind,
                                    SubSeq(events, i + 2, stop), 0)
                       want == ClaimedRepeatText(inner.text, inner.bars, count)
                       got == IF i = 0 THEN pattern[k].text
                              ELSE GenerateWithBars(staff.kind, events, i).text
                   IN  /\ Len(got) >= Len(want)
                       /\ SubSeq(got, 1, Len(want)) = want
                       /\ (inner.bars <= 1 /\ Len(got) > Len(want))
                            => got[Len(want) + 1] # "@"

\* A two-bar region repeated twice carries the "@4" multiplier.
C8_Witness ==
    /\ gen_pc = "done"
    /\ staff.kind = "Drums"
    /\ Len(staff.content) = 1
    /\ staff.content[1].events
         = <<RepeatStart(2), HitBd, BarLine, HitBd, RepeatEnd>>
    /\ Str(pattern[1].text) = "[[[bd]\n[bd]]!2]@4"

\* The text ends with the call .cpm(tempo/4/<bars>), bars in decimal.
EndsWithCpm(text, bars) ==
    /\ Len(text) >= 3
    /\ SubSeq(text, Len(text) - 2, Len(text))
         = <<"\n  .cpm(", "tempo/4/" \o ToString(bars), ")">>

HasCpm(text) == \E i \in 1..Len(text) : text[i] = "\n  .cpm("

\* generate_staff returned the placeholder comment instead of an expression.
NothingToConvert ==
    \/ /\ staff.kind = "Pitched"
       /\ \A i \in 1..Len(staff.content) : staff.content[i].type # "Note"
    \/ /\ staff.kind = "Drums"
       /\ Len(staff.content) = 1
       /\ \A i \in 1..Len(staff.content[1].events) :
            staff.content[1].events[i].type # "Hit"

NumberOf(text, chunk) == Cardinality({i \in 1..Len(text) : text[i] = chunk})

\* The bar count of each voice, counted on the voice alone.
VoiceBars(voice) == count_drum_bars(voice.events, 0).bars

\* The shape of a drum staff's expression for two or more voices: one
\* stack(...) holding one sound(...) per voice, and a tempo expression over
\* the largest of the voices' bar counts.
StackedShape ==
    LET voices == staff.content
        text == Unwrap(out)
        most == CHOOSE m \in {VoiceBars(voices[i]) : i \in 1..Len(voices)} :
                    \A i \in 1..Len(voices) : VoiceBars(voices[i]) <= m
    IN  /\ text[1] = "stack(\n  "
        /\ NumberOf(text, "stack(\n  ") = 1
        /\ NumberOf(text, "sound(") = Len(voices)
        /\ HasCpm(text) => EndsWithCpm(text, most)
        /\ (IsSome(tempo) /\ most > 0) => HasCpm(text)

SingleSoundShape ==
    LET text == Unwrap(out) IN
    /\ text[1] = "sound("
    /\ NumberOf(text, "sound(") = 1
    /\ NumberOf(text, "stack(\n  ") = 0

\* C10 as stated: with two or more voices the tempo expression uses the
\* largest voice bar count and the voices are combined under one stack(...);
\* with exactly one voice the output is a single sound(...) call.
C10_Original ==
    (gen_pc = "done" /\ staff.kind = "Drums") =>
        IF Len(staff.content) >= 2 THEN StackedShape ELSE SingleSoundShape

\* C10 (amended): as stated, except that a single voice is a single
\* sound(...) call only when it holds at least one Hit; a single voice with
\* no Hit gives the comment "// No drum hits to convert".
C10_DrumStaffShape ==
    (gen_pc = "done" /\ staff.kind = "Drums") =>
        IF Len(staff.content) >= 2 THEN StackedShape
        ELSE IF NothingToConvert
        THEN Unwrap(out) = <<"// No drum hits to convert">>
        ELSE SingleSoundShape

\* Voices of 1 and 4 bars under a tempo: stacked, with cpm over 4 bars.
C10_Witness ==
    /\ gen_pc = "done"
    /\ staff.kind = "Drums"
    /\ IsSome(tempo)
    /\ Len(staff.content) = 2
    /\ VoiceBars(staff.content[1]) = 1
    /\ VoiceBars(staff.content[2]) = 4
    /\ EndsWithCpm(Unwrap(out), 4)
    /\ Unwrap(out)[1] = "stack(\n  "


\* The modifier calls of a text, in the order they are written.
ModifierCalls == {".gain(", ".pan(", ".color(\"", "._punchcard()"}
CallsIn(text) == SelectSeq(text, LAMBDA chunk : chunk \in ModifierCalls)

\* What carries modifiers: the pitched staff itself, or each voice of a
\* drum staff.
ModifiedParts(s) == IF s.kind = "Pitched" THEN <<s>> ELSE s.content

\* The calls the claim gives one part, and the parts in order.
ClaimedCalls(part) ==
    (IF IsSome(part.gain) THEN <<".gain(">> ELSE <<>>)
    \o (IF IsSome(part.pan) THEN <<".pan(">> ELSE <<>>)
    \o (IF IsSome(part.punchcard_color)
        THEN <<".color(\"", "._punchcard()">> ELSE <<>>)
RECURSIVE ClaimedCallsOf(_)
ClaimedCallsOf(parts) ==
    IF parts = <<>> THEN <<>>
    ELSE ClaimedCalls(parts[1]) \o ClaimedCallsOf(Tail(parts))

\* The values of one modifier over the parts that have it, in order, each
\* as the claim writes it: in double quotes exactly when it holds a '<'.
ClaimedValue(value) ==
    IF \E i \in 1..Len(value) : value[i] = "<"
    THEN "\"" \o Str(value) \o "\"" ELSE Str(value)
RECURSIVE ClaimedValues(_, _)
ClaimedValues(parts, field) ==
    IF parts = <<>> THEN <<>>
    ELSE (IF IsSome(parts[1][field])
          THEN <<ClaimedValue(Unwrap(parts[1][field]))>> ELSE <<>>)
         \o ClaimedValues(Tail(parts), field)

\* The arguments written for a call, in order: what stands between the
\* call and the next closing parenthesis.
ArgumentAt(text, i) ==
    Str(SubSeq(text, i + 1,
               MinOf({j \in (i + 1)..Len(text) : text[j] = ")"}) - 1))
RECURSIVE ArgumentsFrom(_, _, _)
ArgumentsFrom(text, call, i) ==
    IF i > Len(text) THEN <<>>
    ELSE (IF text[i] = call THEN <<ArgumentAt(text, i)>> ELSE <<>>)
         \o ArgumentsFrom(text, call, i + 1)

\* Every color call is written .color("<color>") and the punchcard call
\* comes next, after the line break and the indentation.
ColorThenPunchcard(text) ==
    \A i \in 1..Len(text) :
        text[i] = ".color(\"" =>
            /\ i + 4 <= Len(text)
            /\ \E color \in ColorValues :
                 Str(SubSeq(text, i, i + 2)) = ".color(\"" \o color \o "\")"
            /\ text[i + 3] \in {"\n", "\n  "}
            /\ text[i + 4] = "._punchcard()"

\* C18: for every combination of present and absent gain, pan and color on
\* a pitched staff, a single drum voice or a stacked drum voice, the
\* modifier calls written are .gain(..), .pan(..), .color("..") in that
\* order, the color immediately followed by ._punchcard(); an absent
\* modifier writes nothing; a gain or pan value is in double quotes exactly
\* when it holds a '<'.
C18_ModifierOrder ==
    gen_pc = "done" =>
        /\ CallsIn(Unwrap(out))
             = IF NothingToConvert THEN <<>>
               ELSE ClaimedCallsOf(ModifiedParts(staff))
        /\ ~NothingToConvert =>
             /\ ArgumentsFrom(Unwrap(out), ".gain(", 1)
                  = ClaimedValues(ModifiedParts(staff), "gain")
             /\ ArgumentsFrom(Unwrap(out), ".pan(", 1)
                  = ClaimedValues(ModifiedParts(staff), "pan")
        /\ ColorThenPunchcard(Unwrap(out))

\* Two stacked voices, the first with a gain pattern and a color, the
\* second with a pan, have been generated.
C18_Witness ==
    /\ gen_pc = "done"
    /\ staff.kind = "Drums"
    /\ Len(staff.content) = 2
    /\ staff.content[1].gain = Some(<<"<", "0.5 1", ">">>)
    /\ staff.content[1].pan = None
    /\ staff.content[1].punchcard_color = Some("red")
    /\ staff.content[2].gain = None
    /\ staff.content[2].pan = Some(<<"0.5">>)
    /\ staff.content[2].punchcard_color = None
    /\ IsNone(tempo)
    /\ Str(Unwrap(out))
         = "stack(\n  sound(<backquote>\n[bd]<backquote>)\n  .gain(\"<0.5 1>\")\n  .color(\"red\")\n  ._punchcard(),\n  sound(<backquote>\n[hh@0.5]<backquote>)\n  .pan(0.5),\n)"
-----------------------------------------------------------------------------
(* Properties of the parser                                                *)

\* The staff blocks of a simultaneous content in the order they are
\* written: the matches of either staff expression from the left, each
\* giving the staff that its loop body pushes.
EitherStaff(pitched_ends, drum_ends) ==
    [i \in 1..Len(pitched_ends) |-> Max(pitched_ends[i], drum_ends[i])]
StaffBlockAt(content, pitched_ends, drum_ends, m, variables) ==
    IF pitched_ends[m] # 0
    THEN PitchedStaffBlock(extract_braced_content(content, pitched_ends[m] - 1),
                           variables)
    ELSE DrumStaffBlock(extract_braced_content(content, drum_ends[m] - 1),
                        variables)
RECURSIVE StaffBlocksAt(_, _, _, _, _)
StaffBlocksAt(content, pitched_ends, drum_ends, matches, variables) ==
    IF matches = <<>> THEN <<>>
    ELSE StaffBlockAt(content, pitched_ends, drum_ends, matches[1], variables)
         \o StaffBlocksAt(content, pitched_ends, drum_ends, Tail(matches),
                          variables)
SourceOrderStaves(content, variables) ==
    StaffBlocksAt(content, staff_re(content), drum_staff_re(content),
                  FindAll(EitherStaff(staff_re(content), drum_staff_re(content)), 1),
                  variables)

ParseReturned == parse_pc \in {"done", "generated"}

\* C1: when the simultaneous block of the score holds staff blocks that
\* give a staff, the staves of the ParseResult are the staves of the blocks
\* in the order the blocks are written, and the generated page holds them
\* in that order.
C1_SourceOrder ==
    (/\ ParseReturned
     /\ IsSome(sim_content)
     /\ SourceOrderStaves(Unwrap(sim_content), Unwrap(variable_map)) # <<>>)
    => /\ Unwrap(parse_result).ok
       /\ Unwrap(parse_result).staves =
            SourceOrderStaves(Unwrap(sim_content), Unwrap(variable_map))
       /\ parse_pc = "generated" =>
            Unwrap(out) =
              generate_html(SourceOrderStaves(Unwrap(sim_content),
                                              Unwrap(variable_map)),
                            tempo, Title)

\* C2: resolve_variables returns, whatever the table and the content.
C2_Terminates == <>(resolve_pc = "done")

\* The occurrences of the keyword \repeat in a text, and the matches of the
\* repeat expression in it.
KeywordCount(s) == Cardinality({i \in 1..Len(s) : HasAt(s, i, <<"\\", "r", "e", "p", "e", "a", "t">>)})
MatchCount(s) == Len(FindAll(repeat_re(s), 1))

\* An iteration of the loop of mark_repeats that replaced a match.
ReplacedAMatch == mark_pc = "loop" /\ mark_pc' = "loop"

Balanced(events) ==
    LET starts(p) == Cardinality({k \in 1..p : events[k].type = "RepeatStart"})
        ends(p) == Cardinality({k \in 1..p : events[k].type = "RepeatEnd"})
    IN  /\ \A p \in 1..Len(events) : ends(p) <= starts(p)
        /\ ends(Len(events)) = starts(Len(events))

\* C4: the events parsed from a marked text have balanced RepeatStart and
\* RepeatEnd events, whatever the body of the repeats.
C4_Balanced ==
    mark_pc \in {"notes", "drums"} => Balanced(Unwrap(parsed_events))

\* The lines of a text, and what the lines of an input say.
SourceLines(s) ==
    {Slice(s, i, LineEnd(s, i)) : i \in {j \in 1..(Len(s) + 1) : LineStart(s, j)}}
Written(s) == {l \in TempoLines : l.text \in SourceLines(s)}

\* The input has a literal tempo directive; it has a directive that refers
\* to a variable together with the assignment of a number to that variable
\* at the start of a line.
HasLiteral(s) == \E l \in Written(s) : l.kind = "literal"
HasVariable(s) ==
    \E l \in Written(s), a \in Written(s) :
        /\ l.kind = "variable"
        /\ a.kind = "assignment" /\ a.name = l.name

\* The tempos the directives of an input give: the digits of a literal
\* directive, or of a directive that refers to a variable and of the
\* assignment of that variable.
DirectiveTempos(s) ==
    {MkTempo(l.unit, l.bpm) :
        l \in {w \in Written(s) : w.kind = "literal" /\ w.bpm >= 0}}
    \cup {MkTempo(p[1].unit, p[2].bpm) :
            p \in {q \in Written(s) \X Written(s) :
                     /\ q[1].kind = "variable"
                     /\ q[2].kind = "assignment" /\ q[2].name = q[1].name}}

MentionsTempo(message) == \E i \in 1..Len(message) : message[i] = "tempo"

RefNames(text) ==
    {RefName(text, FindAll(var_ref_re(text), 1)[k]) :
        k \in 1..Len(FindAll(var_ref_re(text), 1))}
RefStep(names, variables) ==
    names \cup UNION {RefNames(variables[n].content) :
                        n \in names \cap DOMAIN variables}
Reached(text, variables) ==
    RefStep(RefStep(RefStep(RefNames(text), variables), variables), variables)
TransitivelyDrums(content, variables) ==
    \E n \in Reached(content, variables) : IsDrums(variables, n)

\* The staff a \new Staff / \new TabStaff block gives when it is routed by
\* the macros it refers to directly or through other macros.
ClaimedStaffOf(content, resolved, variables) ==
    IF TransitivelyDrums(content, variables)
    THEN DrumStaffIfAny(VoiceIfAny(parse_drums_from_section(resolved),
                                   parse_punchcard_color(content),
                                   parse_gain(content), parse_pan(content)))
    ELSE StaffIfAny(parse_notes_from_section(resolved),
                    parse_punchcard_color(content),
                    parse_gain(content), parse_pan(content))
ClaimedStaffBlock(staff_content, variables) ==
    IF IsNone(staff_content) THEN <<>>
    ELSE ClaimedStaffOf(Unwrap(staff_content),
                        resolve_variables(Unwrap(staff_content), variables),
                        variables)
RECURSIVE ClaimedStaffBlocks(_, _, _, _)
ClaimedStaffBlocks(content, ends, matches, variables) ==
    IF matches = <<>> THEN <<>>
    ELSE ClaimedStaffBlock(extract_braced_content(content, ends[matches[1]] - 1),
                           variables)
         \o ClaimedStaffBlocks(content, ends, Tail(matches), variables)

\* C17: a \new Staff / \new TabStaff block goes to the percussive event
\* parser when a macro it refers to, directly or through other macros, is
\* a drummode macro, and to the pitched parser otherwise.
C17_TransitiveRouting ==
    parse_pc = "drum_staves" =>
        parsed_staves =
            ClaimedStaffBlocks(Unwrap(sim_content),
                               staff_re(Unwrap(sim_content)),
                               FindAll(staff_re(Unwrap(sim_content)), 1),
                               Unwrap(variable_map))

\* The input has a tempo directive, whatever its value.
HasDirective(s) == \E l \in Written(s) : l.kind \in {"literal", "variable"}

\* The errors of extract_notes_section.
FallbackErrors ==
    {<<"No '{' found">>, <<"No '}' found">>, <<"Invalid syntax">>}

\* C20: for an input with a tempo directive parse does not panic, and the
\* only errors it returns are those of the fallback path, which finds no
\* '{', no '}', or no '{' before the last '}'.
C20_NeverAborts ==
    HasDirective(source) =>
        /\ parse_pc # "panicked"
        /\ ParseReturned /\ ~Unwrap(parse_result).ok
             => Unwrap(parse_result).err \in FallbackErrors
-----------------------------------------------------------------------------
(* Properties of the token parsers and of the event formatters             *)

TokenParsed == token_pc \in {"parsed", "formatted", "panicked"}

\* The notes the words of a chord stand for, each at the duration that
\* follows the closing bracket.
ChordWordNotes(c) ==
    LET notes == Flatten([k \in 1..Len(c.words) |-> c.words[k].note]) IN
    [k \in 1..Len(notes) |-> [notes[k] EXCEPT !.duration = c.suffix.duration]]

\* The one Note a chord of these notes is: the first, holding the others.
ChordNote(notes) ==
    [notes[1] EXCEPT !.chord_notes =
        IF Len(notes) = 1 THEN None ELSE Some(Tail(notes))]

\* C11: a chord token <n1 ... nk>d parses to exactly one Note event; the
\* first word that parses as a note is the representative, the other
\* parsed notes are its chord partners in order, and all of them carry the
\* duration read after the closing bracket (4 by default), whatever digits
\* the words between the brackets carry.
C11_ChordParse ==
    token_mode = "pitched" /\ TokenParsed =>
        \A c \in ChordTokens :
            c.text = token_str /\ ChordWordNotes(c) # <<>> =>
                token_event = Some(NoteEv(ChordNote(ChordWordNotes(c))))

\* A chord whose first word is no note and whose other words carry digits
\* of their own has been parsed to a note with one partner, at the
\* duration after the bracket.
C11_Witness ==
    /\ token_pc = "parsed"
    /\ token_str = <<"<", "x", " ", "e", "'", "4", " ", "g", "i", "s", ",", "8", ".", ">", "2">>
    /\ IsSome(token_event)
    /\ Unwrap(token_event).type = "Note"
    /\ Unwrap(token_event).note.name = "e"
    /\ Unwrap(token_event).note.duration = 2
    /\ IsSome(Unwrap(token_event).note.chord_notes)
    /\ Len(Unwrap(Unwrap(token_event).note.chord_notes)) = 1
    /\ Unwrap(Unwrap(token_event).note.chord_notes)[1].duration = 2

\* A note as the claim writes it: letter, accidental sign, octave.
Sign(accidental) ==
    IF accidental = Some("is") THEN "#"
    ELSE IF accidental = Some("es") THEN "b" ELSE ""
Written3(note) == note.name \o Sign(note.accidental) \o ToString(note.octave)

\* The strings separated by commas.
RECURSIVE CommaJoined(_)
CommaJoined(strings) ==
    IF Len(strings) = 1 THEN strings[1]
    ELSE strings[1] \o "," \o CommaJoined(Tail(strings))

Bracketed(notes) ==
    "[" \o CommaJoined([k \in 1..Len(notes) |-> Written3(notes[k])]) \o "]"

\* The weights written for the durations of the tokens.
WeightTexts == {"4", "2", "0.5", "0.25", "inf", "1.3333334"}

\* C12: a Note with chord partners is formatted as [note1,note2,...], the
\* representative first and the partners in stored order, each as letter,
\* accidental sign and octave; the weight suffix @w follows the closing
\* bracket, once, and only when the duration of the chord is not 4.
C12_ChordFormat ==
    token_pc = "formatted" /\ token_mode = "pitched" =>
        \A c \in ChordTokens :
            c.text = token_str /\ Len(ChordWordNotes(c)) >= 2 =>
                /\ IsSome(token_out)
                /\ IF c.suffix.duration = 4
                   THEN Str(Unwrap(token_out)) = Bracketed(ChordWordNotes(c))
                   ELSE \E w \in WeightTexts :
                          Str(Unwrap(token_out))
                            = Bracketed(ChordWordNotes(c)) \o "@" \o w

\* A chord of three notes at the eighth has been formatted.
C12_Witness ==
    /\ token_pc = "formatted"
    /\ token_str = <<"<", "c", " ", "e", "'", "4", " ", "d", "e", "s", ">", "8">>
    /\ Str(Unwrap(token_out)) = "[c3,e4,db3]@0.5"

CountOf(s, c) == Cardinality({i \in 1..Len(s) : s[i] = c})

\* The pitch the claim gives a note of this letter, accidental and octave.
ClaimedPitch(name, semitones, octave) ==
    Semitone(name) + semitones + (octave + 1) * 12

ParsedNote == Unwrap(token_event).note

\* C13 as stated: every parsed note has octave 3 + (the number of ' in its
\* token) - (the number of , in its token), and pitch semitone(letter)
\* + accidental + (octave + 1) * 12.
C13_AllMarks ==
    token_mode = "pitched" /\ TokenParsed =>
        \A t \in NoteTokens :
            t.text = token_str /\ IsSome(token_event) =>
                /\ ParsedNote.octave
                     = 3 + CountOf(token_str, "'") - CountOf(token_str, ",")
                /\ ParsedNote.midi
                     = ClaimedPitch(t.name, t.acc.semitones, ParsedNote.octave)

\* C13, amended: every parsed note has octave 3 + (the number of ') - (the
\* number of ,) in the run of octave marks that directly follows the letter
\* and the accidental, marks later in the token being ignored, and pitch
\* semitone(letter) + accidental (+1 for is, -1 for es, 0 for none)
\* + (octave + 1) * 12.
C13_OctaveAndPitch ==
    token_mode = "pitched" /\ TokenParsed =>
        \A t \in NoteTokens :
            t.text = token_str =>
                /\ IsSome(token_event)
                /\ Unwrap(token_event).type = "Note"
                /\ ParsedNote.name = t.name
                /\ ParsedNote.accidental = t.acc.accidental
                /\ ParsedNote.octave = 3 + t.oct.up - t.oct.down
                /\ ParsedNote.midi
                     = ClaimedPitch(t.name, t.acc.semitones,
                                    3 + t.oct.up - t.oct.down)

\* des with one mark up and one down, a duration and a stray mark after
\* it has been parsed: octave 3, pitch 2 - 1 + 48.
C13_Witness ==
    /\ token_pc = "parsed"
    /\ token_str = <<"d", "e", "s", "'", ",", "8", "'">>
    /\ IsSome(token_event)
    /\ ParsedNote.octave = 3
    /\ ParsedNote.midi = 49

\* The duration of a Note or Hit event, and the event written without a
\* weight.
SoundingDuration(e) ==
    IF e.type = "Note" THEN e.note.duration ELSE e.hit.duration
Unweighted(e) ==
    IF e.type = "Hit" THEN e.hit.name
    ELSE IF IsSome(e.note.chord_notes)
    THEN Bracketed(<<e.note>> \o Unwrap(e.note.chord_notes))
    ELSE Written3(e.note)

\* The suffix the claim gives a duration of its table.
ClaimedSuffix(duration) ==
    CASE duration = 1 -> "@4" [] duration = 2 -> "@2" [] duration = 4 -> ""
      [] duration = 8 -> "@0.5" [] duration = 16 -> "@0.25"

\* C14: the weight suffix of a note or drum hit depends only on its
\* duration: 1 gives @4, 2 gives @2, 8 gives @0.5, 16 gives @0.25, 4 gives
\* no suffix, and every duration other than 4 gives a suffix @<weight>.
C14_WeightSuffix ==
    /\ token_pc = "formatted"
    /\ IsSome(token_event)
    /\ Unwrap(token_event).type \in {"Note", "Hit"}
    => /\ IsSome(token_out)
       /\ IF SoundingDuration(Unwrap(token_event)) \in {1, 2, 4, 8, 16}
          THEN Str(Unwrap(token_out))
                 = Unweighted(Unwrap(token_event))
                   \o ClaimedSuffix(SoundingDuration(Unwrap(token_event)))
          ELSE \E w \in WeightTexts :
                 Str(Unwrap(token_out))
                   = Unweighted(Unwrap(token_event)) \o "@" \o w

\* An eighth snare hit has been formatted.
C14_Witness ==
    /\ token_pc = "formatted"
    /\ token_mode = "drums"
    /\ token_str = <<"s", "n", "8">>
    /\ Str(Unwrap(token_out)) = "sd@0.5"

\* n placeholders joined by single spaces.
RECURSIVE Placeholders(_)
Placeholders(n) == IF n <= 1 THEN "~" ELSE "~ " \o Placeholders(n - 1)

IsRest == IsSome(token_event) /\ Unwrap(token_event).type = "Rest"

\* C15: every Rest event the parsers produce is formatted, without a
\* failure, as max(1, 4 div duration) placeholders ~ joined by single
\* spaces.
C15_RestFormat ==
    TokenParsed /\ IsRest =>
        /\ token_pc # "panicked"
        /\ token_pc = "formatted" =>
              /\ IsSome(token_out)
              /\ Str(Unwrap(token_out))
                   = Placeholders(Max(1, 4 \div Unwrap(token_event).duration))

\* The durations of an event: of a note and its chord partners, of a hit,
\* of a rest; none for the other events.
DurationsOf(e) ==
    CASE e.type = "Note" ->
           {e.note.duration}
           \cup (IF IsSome(e.note.chord_notes)
                 THEN {Unwrap(e.note.chord_notes)[k].duration :
                         k \in 1..Len(Unwrap(e.note.chord_notes))}
                 ELSE {})
      [] e.type = "Hit" -> {e.hit.duration}
      [] e.type = "Rest" -> {e.duration}
      [] OTHER -> {}

\* C16: every Note, chord partner, DrumHit and Rest the parsers produce has
\* a duration of at least 1, whatever digits the token carries.
C16_PositiveDuration ==
    TokenParsed /\ IsSome(token_event) =>
        \A d \in DurationsOf(Unwrap(token_event)) : d >= 1

\* The token goes to parse_single_note: it is no comment, bar line, repeat
\* marker, rest, backslash word or chord.
SingleNoteToken(token) ==
    /\ ~IsCommentToken(token) /\ ~IsRepeatStartToken(token) /\ token # REPEAT_END
    /\ ~starts_with(trim(token), <<"|">>) /\ ~starts_with(trim(token), <<"\\">>)
    /\ ~starts_with(trim(token), <<"<">>)
    /\ parse_rest(token) = None

\* The form the claim gives a note: the letter, the accidental if the two
\* characters after the letter are one, octave marks, digits, dots and
\* ties, and no alphabetic character from there on.
ClaimedAccidental(token) ==
    IF HasAt(token, 2, <<"i", "s">>) THEN Some("is")
    ELSE IF HasAt(token, 2, <<"e", "s">>) THEN Some("es")
    ELSE None
ClaimedFormFrom(token, after_accidental) ==
    ~AnyAlphabetic(token,
        SkipDots(token, SkipDigits(token,
            SkipIn(token, after_accidental, {"'", ","}))))
ClaimedForm(token) ==
    /\ token # <<>>
    /\ token[1] \in {"a", "b", "c", "d", "e", "f", "g"}
    /\ ClaimedFormFrom(token, IF IsSome(ClaimedAccidental(token)) THEN 4 ELSE 2)

NoteAsClaimed(token, event) ==
    IF ClaimedForm(token)
    THEN /\ IsSome(event)
         /\ Unwrap(event).type = "Note"
         /\ Unwrap(event).note.name = token[1]
         /\ Unwrap(event).note.accidental = ClaimedAccidental(token)
    ELSE event = None

\* C26: parse_single_note gives a note exactly for the tokens made of a
\* letter a-g, an optional accidental is or es directly after it, octave
\* marks, digits, dots and ties, with no alphabetic character after them;
\* the note has the accidental that is written; any other token gives no
\* event.
C26_NoteForm ==
    /\ token_mode = "pitched" /\ TokenParsed /\ SingleNoteToken(token_str)
    => NoteAsClaimed(trim(token_str), token_event)

\* The leading alphabetic run of a token and the digits directly after it.
LeadingName(token) == Str(Slice(token, 1, SkipAlphabetic(token, 1)))
DigitsAfter(token, after_name) ==
    Slice(token, after_name, SkipDigits(token, after_name))
DigitsAfterName(token) == DigitsAfter(token, SkipAlphabetic(token, 1))

\* The synonym table of the claim.
ClaimedSound(name) ==
    CASE name = "sn" -> "sd" [] name = "hhc" -> "hh" [] name = "hho" -> "oh"
      [] name = "cymc" -> "cr" [] name = "cymr" -> "rd" [] name = "tomh" -> "ht"
      [] name = "tomm" -> "mt" [] name = "toml" -> "lt" [] name = "ss" -> "rim"
      [] OTHER -> name

IsHit(event) == IsSome(event) /\ Unwrap(event).type = "Hit"

\* The digits a duration is written with are the given digits, leading
\* zeros aside; 4 stands for no digits.
WrittenAs(duration, digits) ==
    IF digits = <<>> THEN duration = 4
    ELSE StripZeros(ToDigits(duration)) = StripZeros(digits)
\* The number the digits stand for when it fits 32 bits, 4 otherwise and
\* for no digits.
FitsOrQuarter(duration, digits) ==
    IF Len(StripZeros(digits)) > 9 THEN duration = 4
    ELSE WrittenAs(duration, digits)

NamedAsClaimed(event, name) ==
    /\ IsHit(event)
    /\ event = Some(HitEv(ClaimedSound(name), Unwrap(event).hit.duration))

\* C27 as stated: a token whose leading alphabetic run is a drum name gives
\* one Hit, named through the synonym table, whose duration is the number
\* the digits after the name stand for, 4 without digits; any other token
\* gives no Hit.
C27_DigitsAsWritten ==
    token_mode = "drums" /\ TokenParsed =>
        IF LeadingName(trim(token_str)) \in drum_names
        THEN /\ NamedAsClaimed(token_event, LeadingName(trim(token_str)))
             /\ WrittenAs(Unwrap(token_event).hit.duration,
                          DigitsAfterName(trim(token_str)))
        ELSE ~IsHit(token_event)

\* C27, amended: a token whose leading alphabetic run is a drum name gives
\* one Hit, named through the synonym table, whose duration is the number
\* the digits after the name stand for, 4 without digits or when the number
\* does not fit 32 bits; any other token gives no Hit.
C27_DrumVocabulary ==
    token_mode = "drums" /\ TokenParsed =>
        IF LeadingName(trim(token_str)) \in drum_names
        THEN /\ NamedAsClaimed(token_event, LeadingName(trim(token_str)))
             /\ FitsOrQuarter(Unwrap(token_event).hit.duration,
                              DigitsAfterName(trim(token_str)))
        ELSE ~IsHit(token_event)

\* The ride bell with a duration has been parsed: a Hit, not a Rest.
C27_Witness ==
    /\ token_mode = "drums" /\ token_pc = "parsed"
    /\ token_str = <<"r", "b", "1", "6">>
    /\ token_event = Some(HitEv("rb", 16))
-----------------------------------------------------------------------------
(* Properties of the bar walks                                             *)

IsCountWalk == walk_kind \in {"pitched_count", "drum_count"}

\* The bar counter of a call: bars in count_*_bars, bar_count in
\* generate_*_pattern_with_bars.
Counter(f) == IF IsCountWalk THEN f.bars ELSE f.bar_count

\* The frames counted from the outermost call.
FromOutermost(frames, k) == frames[Len(frames) - k + 1]

\* The repeats opened and not closed by the events walked so far.
OpenRepeats ==
    Cardinality({j \in 1..walk_idx : walk_events[j].type = "RepeatStart"})
    - Cardinality({j \in 1..walk_idx : walk_events[j].type = "RepeatEnd"})

\* A note, hit or rest occurred since the previous bar boundary: after the
\* last BarLine, RepeatStart or RepeatEnd walked, and not inside a repeat
\* whose walk has already ended with the events.
ContentSinceBoundary ==
    /\ Len(walk_frames) - 1 = OpenRepeats
    /\ \E j \in 1..walk_idx :
         /\ walk_events[j].type \in {"Note", "Hit", "Rest"}
         /\ \A k \in j..walk_idx :
              walk_events[k].type \notin {"BarLine", "RepeatStart", "RepeatEnd"}
OwnBar == IF ContentSinceBoundary THEN 1 ELSE 0

\* The step leaves the groups of the call alone, or (pattern walks, with
\* content since the boundary) adds one group that is not empty.
GroupsAfter(before, after) ==
    IF IsCountWalk THEN TRUE
    ELSE IF ContentSinceBoundary
    THEN /\ Len(after.bars) = Len(before.bars) + 1
         /\ SubSeq(after.bars, 1, Len(before.bars)) = before.bars
         /\ Str(after.bars[Len(after.bars)]) # "[]"
    ELSE after.bars = before.bars

\* What one step of a walk does to the bar counters and the groups.
WalkStepCounts ==
    IF WalkGoesOn
    THEN CASE walk_events[walk_idx + 1].type = "BarLine" ->
                /\ Len(walk_frames') = Len(walk_frames)
                /\ Counter(walk_frames'[1]) = Counter(walk_frames[1]) + OwnBar
                /\ GroupsAfter(walk_frames[1], walk_frames'[1])
           [] walk_events[walk_idx + 1].type = "RepeatStart" ->
                /\ Len(walk_frames') = Len(walk_frames) + 1
                /\ Counter(walk_frames'[1]) = 0
                /\ Counter(walk_frames'[2]) = Counter(walk_frames[1]) + OwnBar
                /\ GroupsAfter(walk_frames[1], walk_frames'[2])
           [] walk_events[walk_idx + 1].type = "Comment" ->
                /\ Len(walk_frames') = Len(walk_frames)
                /\ Counter(walk_frames'[1]) = Counter(walk_frames[1])
                /\ IsCountWalk \/ walk_frames'[1].bars = walk_frames[1].bars
           [] OTHER ->
                /\ Len(walk_frames') = Len(walk_frames)
                /\ Counter(walk_frames'[1]) = Counter(walk_frames[1])
                /\ IsCountWalk \/ walk_frames'[1].bars = walk_frames[1].bars
    ELSE IF Len(walk_frames) = 1
    THEN /\ Len(walk_frames') = 1
         /\ Counter(walk_frames'[1]) = Counter(walk_frames[1]) + OwnBar
         /\ GroupsAfter(walk_frames[1], walk_frames'[1])
    ELSE /\ Len(walk_frames') = Len(walk_frames) - 1
         /\ Counter(walk_frames'[1])
              = Counter(walk_frames[2])
                + (Counter(walk_frames[1]) + OwnBar) * walk_frames[1].count

\* No bar counter of a running call decreases.
CountersGrow ==
    \A k \in 1..Len(walk_frames) :
        k <= Len(walk_frames') =>
            Counter(FromOutermost(walk_frames', k))
              >= Counter(FromOutermost(walk_frames, k))

\* C19: in the bar-counting and pattern-generating walks no bar counter
\* decreases; a BarLine, a RepeatStart or the end of a (sub)sequence adds
\* one bar exactly when a note, hit or rest occurred since the previous bar
\* boundary; leading, trailing and consecutive bar markers and Comment
\* events add no bar and no empty [] group.
C19_BarBoundaries ==
    [][walk_pc = "walk" => CountersGrow /\ WalkStepCounts]_vars

\* A pattern walk over a leading, two consecutive and a trailing bar
\* marker around one note has ended with one bar and one group.
C19_Witness ==
    /\ walk_pc = "done"
    /\ walk_kind = "pitched_pattern"
    /\ walk_events = <<BarLine, NoteC, BarLine, BarLine>>
    /\ walk_frames[1].bar_count = 1
    /\ Len(walk_frames[1].bars) = 1
    /\ Str(walk_frames[1].bars[1]) = "[c4]"

\* What the other walk of the pair returns on the same events from index 0.
OtherWalk(kind, events) ==
    CASE kind = "pitched_count" -> generate_pitched_pattern_with_bars(events, 0)
      [] kind = "pitched_pattern" -> count_pitched_bars(events, 0)
      [] kind = "drum_count" -> generate_drum_pattern_with_bars(events, 0)
      [] kind = "drum_pattern" -> count_drum_bars(events, 0)

SameBarsAndIndex(counter, idx, other) ==
    counter = other.bars /\ idx = other.idx

\* C28: on every event sequence, balanced or not, the bar count of
\* generate_pitched_pattern_with_bars is the value of count_pitched_bars and
\* both leave the index at the same position; the same for the drum pair.
C28_CountsAgree ==
    walk_pc = "done" =>
        SameBarsAndIndex(Counter(walk_frames[1]), walk_idx,
                         OtherWalk(walk_kind, walk_events))

\* The pattern walk of a repeat that is never closed, two bars long.
C28_Witness ==
    /\ walk_pc = "done" /\ walk_kind = "pitched_pattern"
    /\ walk_events = <<RepeatStart(2), NoteC, BarLine, NoteC>>
    /\ walk_frames[1].bar_count = 4
    /\ walk_idx = 4
    /\ count_pitched_bars(walk_events, 0).bars = 4

\* A token that the event parsers turn into the given event.
Marks(octave) ==
    IF octave >= 3 THEN [k \in 1..(octave - 3) |-> "'"]
    ELSE [k \in 1..(3 - octave) |-> ","]
AccidentalText(accidental) ==
    IF accidental = Some("is") THEN <<"i", "s">>
    ELSE IF accidental = Some("es") THEN <<"e", "s">> ELSE <<>>
NoteWord(n) == <<n.name>> \o AccidentalText(n.accidental) \o Marks(n.octave)
NoteTokenOf(n) ==
    IF IsSome(n.chord_notes)
    THEN <<"<">>
         \o Join(<<NoteWord(n)>>
                 \o [k \in 1..Len(Unwrap(n.chord_notes)) |->
                       NoteWord(Unwrap(n.chord_notes)[k])], " ")
         \o <<">">> \o ToDigits(n.duration)
    ELSE NoteWord(n) \o ToDigits(n.duration)
HitTokenOf(h) ==
    (IF h.name = "bd" THEN <<"b", "d">> ELSE <<"h", "h">>) \o ToDigits(h.duration)
TokenOf(e) ==
    CASE e.type = "Note" -> NoteTokenOf(e.note)
      [] e.type = "Hit" -> HitTokenOf(e.hit)
      [] e.type = "Rest" -> <<"r">> \o ToDigits(e.duration)
      [] e.type = "BarLine" -> <<"|">>
      [] e.type = "RepeatStart" -> REPEAT_START \o ToDigits(e.count) \o UNDERSCORES
      [] e.type = "RepeatEnd" -> REPEAT_END
      [] e.type = "Comment" -> COMMENT_START \o <<e.text>> \o UNDERSCORES
TokensOf(events) == [k \in 1..Len(events) |-> TokenOf(events[k])]

\* The event parser of the walk gives these events for some tokens.
ParserProduces(kind, events) ==
    IF kind \in {"pitched_count", "pitched_pattern"}
    THEN PitchedEventsOf(TokensOf(events)) = events
    ELSE DrumEventsOf(TokensOf(events)) = events

\* The chunks of a pattern text that stand for a note, a hit or a rest:
\* neither punctuation nor the number after a "!" or an "@".
IsAtomAt(text, k) ==
    /\ text[k] \notin {"[", "]", " ", "\n", "!", "@", ","}
    /\ k = 1 \/ text[k - 1] \notin {"!", "@"}
AtomsAt(text, positions) == [j \in 1..Len(positions) |-> text[positions[j]]]
Atoms(text) ==
    AtomsAt(text, SelectSeq([k \in 1..Len(text) |-> k],
                            LAMBDA k : IsAtomAt(text, k)))
\* What each note, hit and rest of the events is rendered as, in order.
SoundingAtoms(events) ==
    Concat([k \in 1..Len(events) |->
              IF events[k].type \in {"Note", "Hit", "Rest"}
              THEN Atoms(FormatSounding(events[k])) ELSE <<>>])

AllRendered(events, idx, bars) ==
    /\ idx = Len(events)
    /\ Atoms(Join(bars, "\n")) = SoundingAtoms(events)

\* C29: on every event sequence the parser can produce, the top-level call
\* of generate_pitched_pattern_with_bars or generate_drum_pattern_with_bars
\* ends with the index at the length of the sequence, and the notes, hits
\* and rests of the pattern text are those of the sequence, each once.
C29_AllRendered ==
    /\ walk_pc = "done" /\ ~IsCountWalk
    /\ ParserProduces(walk_kind, walk_events)
    => AllRendered(walk_events, walk_idx, walk_frames[1].bars)
-----------------------------------------------------------------------------
(* Properties of expand_includes                                           *)

\* The names of the directives written in a text, and the names each file
\* includes.
IncludedNames(text) ==
    {CapturedName(text, m) : m \in {i \in 1..Len(text) : IncludeAt(text, i) # 0}}
FileIncludes(files) ==
    [n \in IncludeNames |->
       IF Exists(files, n) THEN IncludedNames(Unwrap(files[n])) ELSE {}]

\* The names reached from a set of names through the files that exist.
IncludeStep(includes, names) ==
    names \cup UNION {includes[n] : n \in names}
IncludeClosure(includes, names) ==
    IncludeStep(includes, IncludeStep(includes, IncludeStep(includes, names)))

\* Of the names reached from the text: a file includes itself, directly or
\* through other files; a name has no file.
OnCycle(includes, reached) ==
    \E n \in reached : n \in IncludeClosure(includes, includes[n])
Missing(files, reached) == {n \in reached : ~Exists(files, n)}
NamesReached(files, code) ==
    IncludeClosure(FileIncludes(files), IncludedNames(code))
CycleReached(files, code) ==
    OnCycle(FileIncludes(files), NamesReached(files, code))
MissingReached(files, code) == Missing(files, NamesReached(files, code)) # {}

\* Every step makes the files not yet seen fewer, or ends a running call,
\* or ends expand_includes.
IncludeVariant ==
    (Cardinality(FileNames) - Cardinality(inc_seen)) * (Cardinality(FileNames) + 3)
    + Len(inc_stack) + (IF inc_pc = "loop" THEN 1 ELSE 0)

IsChunk(message, chunk) == \E i \in 1..Len(message) : message[i] = chunk

\* What expand_includes returned says of the files: with a cycle and no
\* name without a file, an error that holds "Circular include"; with a
\* name without a file and no cycle, an error that names such a file.
OutcomeOf(result, cycle, missing) ==
    /\ cycle /\ missing = {}
         => ~result.ok /\ IsChunk(result.err, "Circular include")
    /\ ~cycle /\ missing # {}
         => ~result.ok /\ \E n \in missing : IsChunk(result.err, n)
IncludeOutcome(result) ==
    OutcomeOf(Unwrap(result), CycleReached(inc_files, source),
              Missing(inc_files, NamesReached(inc_files, source)))

\* C21: expand_includes terminates (every step of a running expansion
\* lowers a natural number); when files reached from the text include each
\* other in a cycle it returns an error that holds "Circular include", and
\* when an included file does not exist it returns an error that names the
\* file.
C21_IncludeErrors ==
    [][/\ inc_pc = "loop" => IncludeVariant' < IncludeVariant /\ IncludeVariant' >= 0
       /\ inc_pc' = "done" => IncludeOutcome(inc_result')]_vars
-----------------------------------------------------------------------------
(* Properties of extract_braced_content and tokenize                       *)

\* The depth count after position p, 1 at the opening brace at position
\* open: braces only.
DepthAfter(text, open, p) ==
    1 + Cardinality({k \in (open + 1)..p : text[k] = "{"})
      - Cardinality({k \in (open + 1)..p : text[k] = "}"})
\* The positions after the opening brace where the count is back at zero.
DepthZero(text, open) ==
    {p \in (open + 1)..Len(text) : DepthAfter(text, open, p) = 0}
ClaimedBraced(text, open, zeros) ==
    IF zeros = {} THEN None
    ELSE Some(SubSeq(text, open + 1, MinOf(zeros) - 1))

\* C22: extract_braced_content returns the text strictly between the
\* opening brace it is given and the first closing brace that brings the
\* depth count over braces back to zero, and None when the count is not
\* back at zero before the end of the text.
C22_BracedContent ==
    scan_kind = "braces" /\ scan_pc = "done" =>
        Unwrap(scan_result) =
            ClaimedBraced(scan_text, scan_start + 1,
                          DepthZero(scan_text, scan_start + 1))

\* The content of the outer braces of "c{<{}}": the chord bracket does not
\* count and the inner closing brace does not end the content.
C22_Witness ==
    /\ scan_kind = "braces" /\ scan_pc = "done"
    /\ scan_text = <<"{", "<", "{", "}", "}">> /\ scan_start = 0
    /\ scan_result = Some(Some(<<"<", "{", "}">>))

\* The characters of a text that are not whitespace, in order.
NonSpace(text) == SelectSeq(text, LAMBDA c : ~is_whitespace(c))
\* A text with every whitespace character written as one space.
Spaced(text) == [k \in 1..Len(text) |-> IF is_whitespace(text[k]) THEN " " ELSE text[k]]
IsPrefix(p, t) == Len(p) <= Len(t) /\ SubSeq(t, 1, Len(p)) = p

\* The chords of a text: the position of a "<" paired with the position of
\* the ">" that closes it, no other "<" in between.
Chords(text) ==
    {<<i, j>> \in (1..Len(text)) \X (1..Len(text)) :
        /\ i < j /\ text[i] = "<" /\ text[j] = ">"
        /\ \A k \in (i + 1)..(j - 1) : text[k] \notin {"<", ">"}}
\* The last position of the duration characters directly after position j.
DurationEnd(text, j) == SkipIn(text, j + 1, Digits \cup {"."}) - 1

\* The chord at <<i, j>> with its duration is the start of token n, and the
\* tokens before n hold the text in front of the chord.
ChordKept(text, tokens, i, j, n) ==
    /\ IsPrefix(Spaced(SubSeq(text, i, DurationEnd(text, j))), tokens[n])
    /\ NonSpace(Concat(SubSeq(tokens, 1, n - 1))) = NonSpace(SubSeq(text, 1, i - 1))

Tokenized(text, tokens) ==
    /\ \A n \in 1..Len(tokens) : tokens[n] # <<>>
    /\ NonSpace(Concat(tokens)) = NonSpace(text)
    /\ \A n \in 1..Len(tokens) :
          tokens[n][1] # "<" => \A k \in 1..Len(tokens[n]) : ~is_whitespace(tokens[n][k])
    /\ \A ch \in Chords(text) :
          \E n \in 1..Len(tokens) : ChordKept(text, tokens, ch[1], ch[2], n)

\* C25: tokenize returns no empty token; the characters of the text that are
\* not whitespace are those of the tokens, in order; a token that does not
\* start with "<" holds no whitespace; and a chord with the duration
\* characters directly after it is one token that keeps the spaces inside
\* the chord, the text in front of it being in the tokens before.
C25_Tokenized ==
    scan_kind = "tokenize" /\ scan_pc = "done" =>
        Tokenized(scan_text, Unwrap(scan_result))

\* A note directly in front of a chord that holds two spaces and a newline
\* and carries a dotted duration.
C25_Witness ==
    /\ scan_kind = "tokenize" /\ scan_pc = "done"
    /\ scan_text = <<"d", "<", "c", " ", " ", "e", "\n", "g", ">", "8", ".">>
    /\ scan_result = Some(<<<<"d">>, <<"<", "c", " ", " ", "e", " ", "g", ">", "8", ".">>>>)
-----------------------------------------------------------------------------
(* Properties of mark_repeats and resolve_variables                        *)

\* The repeat constructs written in a text: where each begins, and the
\* brace that closes each (0: none).
RepeatHeads(ends) == {m \in 1..Len(ends) : ends[m] # 0}
RepeatClosers(s, ends, heads) == [m \in heads |-> MatchBrace(s, ends[m])]
ConstructsClosed(s) ==
    \A m \in RepeatHeads(repeat_re(s)) : MatchBrace(s, repeat_re(s)[m]) # 0

StartMarker(count) ==
    <<" ">> \o REPEAT_START \o ToDigits(count) \o UNDERSCORES \o <<" ">>
EndMarker == <<" ">> \o REPEAT_END \o <<" ">>

\* What the claim puts in the place of the character at position i: the
\* start marker for the first character of a construct and nothing for the
\* rest of it up to its brace, the end marker for the brace that closes a
\* construct, and the character itself anywhere else.
ClaimedPiece(s, ends, heads, closers, i) ==
    IF i \in heads
    THEN StartMarker(unwrap_or(parse_usize(RepeatDigits(s, i)), 1))
    ELSE IF \E m \in heads : m < i /\ i < ends[m] THEN <<>>
    ELSE IF \E m \in heads : closers[m] = i THEN EndMarker
    ELSE <<s[i]>>
ClaimedPieces(s, ends, heads) ==
    [i \in 1..Len(s) |->
       ClaimedPiece(s, ends, heads, RepeatClosers(s, ends, heads), i)]
ClaimedMarked(s) ==
    Concat(ClaimedPieces(s, repeat_re(s), RepeatHeads(repeat_re(s))))

\* C23: for a text whose repeat constructs all have their closing brace,
\* the text mark_repeats returns holds no repeat construct, and is the
\* input with every construct, nested ones included, replaced in place by
\* one pair of markers around its body, the rest of the text unchanged.
C23_MarkedOnce ==
    mark_pc = "marked" /\ ConstructsClosed(source) =>
        /\ MatchCount(loop_result) = 0
        /\ loop_result = ClaimedMarked(source)

\* No variable of the table is reached from its own content.
Acyclic(variables) ==
    \A n \in DOMAIN variables : n \notin Reached(variables[n].content, variables)

\* The names of the references of a text, in the order they are written.
RefSeq(text, refs) == [k \in 1..Len(refs) |-> RefName(text, refs[k])]
RefsOf(text) == RefSeq(text, FindAll(var_ref_re(text), 1))

\* What the claim makes of a text: every reference to a variable of the
\* table replaced by what the claim makes of the content of the variable,
\* every other character kept.
RECURSIVE Substituted(_, _)
SubstitutedPiece(s, ends, variables, i) ==
    IF ends[i] # 0 /\ RefName(s, i) \in DOMAIN variables
    THEN Substituted(variables[RefName(s, i)].content, variables)
    ELSE IF \E m \in 1..(i - 1) :
              ends[m] > i /\ RefName(s, m) \in DOMAIN variables
    THEN <<>>
    ELSE <<s[i]>>
SubstitutedWith(s, ends, variables) ==
    Concat([i \in 1..Len(s) |-> SubstitutedPiece(s, ends, variables, i)])
Substituted(s, variables) == SubstitutedWith(s, var_ref_re(s), variables)

\* The references the claim leaves in a text: those to names the table
\* does not hold, of the text and of the contents it refers to, in order.
RECURSIVE LeftRefs(_, _)
LeftRef(name, variables) ==
    IF name \in DOMAIN variables
    THEN LeftRefs(variables[name].content, variables)
    ELSE <<name>>
LeftRefsOf(names, variables) ==
    Concat([k \in 1..Len(names) |-> LeftRef(names[k], variables)])
LeftRefs(s, variables) == LeftRefsOf(RefsOf(s), variables)

ResolvedAsClaimed(result, content, variables) ==
    /\ \A k \in 1..Len(RefsOf(result)) : RefsOf(result)[k] \notin DOMAIN variables
    /\ result = Substituted(content, variables)
    /\ RefsOf(result) = LeftRefs(content, variables)
    /\ resolve_variables(result, variables) = result

\* C24: with a table in which no variable refers to itself, the text
\* resolve_variables returns holds no reference to a variable of the table,
\* the references to other names are those of the content and of the
\* contents it refers to, unchanged, and resolving the text again changes
\* nothing.
C24_ResolvedFixpoint ==
    resolve_pc = "done" /\ Acyclic(Unwrap(variable_map)) =>
        ResolvedAsClaimed(loop_result, source, Unwrap(variable_map))
-----------------------------------------------------------------------------
(* Properties of the fallback of parse                                     *)

\* The body of the first brace block of a text, closed by the brace that
\* matches its opening brace, if there is one.
FirstBlockAt(text, open) ==
    IF open = 0 THEN None
    ELSE ClaimedBraced(text, open, DepthZero(text, open))
FirstBlock(text) == FirstBlockAt(text, FindLit(text, 1, <<"{">>))

\* parse returned one pitched staff with the events of the body.
OneStaffOf(body, result, tempo_of) ==
    result = Some(Ok(<<new_pitched(parse_notes_from_section(body))>>, tempo_of))

FallbackAsClaimed(block, result, tempo_of) ==
    IsSome(block) => OneStaffOf(Unwrap(block), result, tempo_of)

\* C30: when the marked text has no score region or no simultaneous span in
\* it, parse returns one pitched staff whose events are those of the body
\* of the first brace block of the marked text, closed by its matching
\* brace; what follows the block gives no event.
C30_FirstBlockOnly ==
    /\ parse_pc \in {"done", "generated"}
    /\ IsSome(tempo) /\ IsSome(marked_code) /\ IsNone(sim_content)
    => FallbackAsClaimed(FirstBlock(Unwrap(marked_code)), parse_result,
                         Unwrap(tempo))
====
